---- MODULE Spec2Model ----
(***************************************************************************)
(* A model of the storage core of the Distributed-File-System repository:  *)
(* the WAL-backed TransactionManager (src/src/core/transaction_manager.cpp)*)
(* the BlockManager bitmap allocator (src/src/core/block_manager.cpp), the *)
(* InodeTable allocator (src/src/core/inode.cpp) and the SuperBlock        *)
(* counters (the superblock.cpp text held in src/include/api/rest_server.h)*)
(*                                                                         *)
(* The specifications share the variables:                                 *)
(*   Spec                 the transaction manager and its log file         *)
(*   SpecBlockAccounting  the block bitmap and the superblock's block      *)
(*                        counter of one formatted file system             *)
(*   SpecInodeAccounting  the inode bitmap and the superblock's inode      *)
(*                        counter of one formatted file system             *)
(***************************************************************************)
EXTENDS Integers, Sequences, FiniteSets, TLC

VARIABLES
    \* ---- TransactionManager (one process, one log file)
    next_transaction_id_,   \* std::atomic<uint64_t>
    transactions,           \* the Transaction objects ever made by this manager,
                            \* by id; an object erased from the map is destroyed
                            \* and its last field values are kept here unchanged
    active_transactions_,   \* the keys of the unordered_map
    wal,                    \* the records held by the log file, in file order
    created,                \* Transaction objects made over all process lifetimes
    begun,                  \* the ids begin_transaction() returned, in call order
    swept,                  \* the ids cleanup_expired_transactions() aborted
    incomplete,             \* log positions written by a commit that did not complete
    last,                   \* the last public call: what it was given and returned
    replayed,               \* log positions the last call replayed, in order
                            \* (empty unless the last call was recover())
    \* ---- BlockManager
    block_bitmap_,          \* std::vector<bool> indexed from 0, TRUE = free
    next_free_block_,
    bitmap_mutex_,          \* "free", or "stuck" once its holder waits for it
    block_ret,              \* the last BlockManager call and what it returned
    \* ---- InodeTable
    free_inodes_,           \* std::vector<bool> indexed from 0, TRUE = free
    next_free_inode_,
    table_mutex_,
    inode_ret,              \* the last InodeTable call and what it returned
    \* ---- SuperBlock
    superblock,             \* the struct's fields
    superblock_ret,         \* the last SuperBlock call and what it returned
    superblock_file,        \* the structs the device holds: none or one
    wall_clock,             \* system_clock, in seconds
    \* ---- FileSystem
    fs_mutex_,              \* the threads holding the shared_mutex shared
    inode_mutexes_,         \* inode number -> who holds its shared_mutex
    inodes_,                \* inode number -> the inode and the blocks it points to
    published,              \* ids of the transactions whose writes were made visible
    thread,                 \* per caller thread: the operation it is in and how far
    expected,               \* per inode: the bytes its completed writes put there
    \* ---- RetryHandler
    circuit_state_,         \* std::atomic<CircuitState>
    consecutive_failures_,  \* std::atomic<uint32_t>
    caller,                 \* per thread: where it is in execute_with_retry
    last_failure_time_,     \* steady_clock time point of the last failure
    steady_clock,           \* steady_clock, in periods of circuit_breaker_timeout
    \* ---- callers inside one object at once
    sb_caller,              \* per thread: where it is in a SuperBlock call
    alloc_caller,           \* per thread: where it is in an allocator call
    transaction_mutex_,     \* the thread holding it, 0 when free
    committer,              \* per thread: where it is in commit_transaction
    \* ---- TransactionGuard
    guard,                  \* the guard object: its members, whether it exists
    \* ---- ThreadPool
    tasks_,                 \* the tasks in the priority queue (how many)
    active_tasks_,          \* std::atomic<size_t>
    condition_,             \* the threads blocked in condition_.wait
    pool_thread,            \* per worker and for the waiting thread: where it is
    total_tasks_queued_     \* std::atomic<uint64_t>

txVars == <<next_transaction_id_, transactions, active_transactions_, wal,
            created, begun, swept, incomplete, last, replayed>>
blockVars == <<block_bitmap_, next_free_block_, bitmap_mutex_, block_ret>>
inodeVars == <<free_inodes_, next_free_inode_, table_mutex_, inode_ret>>
superVars == <<superblock, superblock_ret, superblock_file>>
facadeVars == <<fs_mutex_, inode_mutexes_, inodes_, published, thread, expected>>
retryVars == <<circuit_state_, consecutive_failures_, caller, last_failure_time_,
               steady_clock>>
callVars == <<sb_caller, alloc_caller, transaction_mutex_, committer>>
poolVars == <<tasks_, active_tasks_, condition_, pool_thread, total_tasks_queued_>>
vars == <<txVars, blockVars, inodeVars, superVars, wall_clock, facadeVars, retryVars,
          callVars, poolVars, guard>>
\* what the transaction manager never touches (a TransactionGuard aside)
notTxVars == <<blockVars, inodeVars, superVars, wall_clock, facadeVars, retryVars,
               callVars, poolVars>>

(***************************************************************************)
(* Bounds of the model.                                                    *)
(***************************************************************************)
MaxTx == 2          \* transactions begun, over all process lifetimes
MaxEntries == 2     \* records staged per transaction
TickSeconds == 31   \* seconds per clock tick
FormatBlocks == 12   \* total_blocks given to format
MaxUsedBlocks == 2   \* blocks in use at once while the counters are compared
MaxCount == 2        \* blocks asked of allocate_blocks in one call
MaxWallClock == 1    \* seconds the wall clock advances
PoolBlocks == 5      \* total_blocks of a BlockManager used on its own
PoolInodes == 4      \* max_inodes of an InodeTable used on its own
MaxThreads == 2      \* caller threads inside the facade at once
BlockSize == 2       \* bytes per data block
MaxFileBlocks == 1   \* blocks the pointer tree of one file reaches
FacadeInodes == 4    \* inode numbers 0 .. FacadeInodes - 1 of the mounted image
MaxAppend == 1       \* bytes given to one append_file
MaxDamaged == 1      \* records of the log file the medium damages
max_retries == 1     \* RetryConfig given to the RetryHandler: retries per call
circuit_breaker_failure_threshold == 2   \* and failures in a row that open the circuit
MaxSteadyClock == 1  \* periods of circuit_breaker_timeout the steady clock advances
max_threads_ == 3    \* ThreadPool: hardware_concurrency of the machine
MaxTasks == 3        \* tasks given to the ThreadPool

(***************************************************************************)
(* 32-bit helpers.  Every value the model computes stays far below 2^30.   *)
(***************************************************************************)
RECURSIVE XOR(_, _)
XOR(a, b) ==
    IF a = 0 THEN b
    ELSE IF b = 0 THEN a
    ELSE ((a + b) % 2) + 2 * XOR(a \div 2, b \div 2)

CRC_POLY == 79764919    \* 0x04C11DB7

\* bit 31 of a 32-bit value
HighBit(x) == (x \div 1073741824) >= 2

\* one round of the byte loop: temp = (temp << 1) ^ byte; if (temp & 0x80000000) ...
ChecksumStep(temp, byte) ==
    LET t == XOR(temp * 2, byte)
    IN  IF HighBit(t) THEN XOR(t, CRC_POLY) ELSE t

RECURSIVE ChecksumBytes(_, _)
ChecksumBytes(temp, bytes) ==
    IF bytes = << >> THEN temp
    ELSE ChecksumBytes(ChecksumStep(temp, Head(bytes)), Tail(bytes))

(***************************************************************************)
(* LogEntry                                                                *)
(***************************************************************************)
\* The record kinds of the WAL, in the order the specification lists them; the
\* source keeps operation_type an opaque uint32 ("CREATE, WRITE, DELETE, etc.").
OpTypeNames == <<"BEGIN", "CREATE", "WRITE_BLOCK", "ALLOC_INODE", "FREE_INODE",
                 "ALLOC_BLOCK", "FREE_BLOCK", "DIR_ADD", "DIR_REMOVE", "COMMIT", "ABORT">>
OpCode(name) == (CHOOSE i \in 1..Len(OpTypeNames) : OpTypeNames[i] = name) - 1

LogEntry(tx_id, op_type, inode, block) ==
    [transaction_id |-> tx_id, operation_type |-> op_type, inode_number |-> inode,
     block_number |-> block, timestamp |-> 0, checksum |-> 0,
     old_data |-> << >>, new_data |-> << >>]

\* The value update_checksum() stores (the 64-bit fields' high words are 0 here).
ComputedChecksum(e) ==
    LET header == XOR(XOR(XOR(XOR(e.transaction_id, e.operation_type),
                              e.inode_number), e.block_number), e.timestamp)
    IN  ChecksumBytes(ChecksumBytes(header, e.old_data), e.new_data)

update_checksum(e) == [e EXCEPT !.checksum = ComputedChecksum(e)]

is_valid(e) == e.checksum = ComputedChecksum(e)

\* The record a caller stages as the k-th of transaction tx_id: first a CREATE of
\* inode 2, then WRITE_BLOCKs of block 2 + k of that inode carrying one byte.
CallerEntry(tx_id, k) ==
    IF k = 1 THEN LogEntry(tx_id, OpCode("CREATE"), 2, 0)
    ELSE [LogEntry(tx_id, OpCode("WRITE_BLOCK"), 2, 2 + k) EXCEPT !.new_data = <<k>>]

(***************************************************************************)
(* Transaction                                                             *)
(***************************************************************************)
\* start_time is kept as `elapsed`, the ticks of steady_clock since it: the
\* only way the code reads start_time is steady_clock::now() - start_time.
Transaction(tx_id) ==
    [transaction_id |-> tx_id, log_entries |-> << >>, elapsed |-> 0,
     is_active |-> TRUE, is_committed |-> FALSE, is_aborted |-> FALSE]

transaction_timeout_ == 30   \* seconds

is_expired(t) == transactions[t].elapsed * TickSeconds > transaction_timeout_

\* A Transaction erased from the map is destroyed: its flags and records are
\* kept as they were, and it has no clock reading any more.
Destroyed(tx) == [tx EXCEPT !.elapsed = 0]

\* The state a Transaction object shows ("NONE": no such object was ever made).
TxState(txs, t) ==
    IF t \notin DOMAIN txs THEN "NONE"
    ELSE IF txs[t].is_committed THEN "COMMITTED"
    ELSE IF txs[t].is_aborted THEN "ABORTED"
    ELSE "ACTIVE"

\* A public call: what it was, the id it was given (commit and rollback; 0 for
\* the others), what it returned or threw, the state the transaction showed
\* before it, and the records it appended to the log file.
NoCall == [op |-> "none", tx |-> 0, ret |-> "none", was |-> "NONE", wrote |-> 0]

Call(op, tx, ret, wrote) ==
    [op |-> op, tx |-> tx, ret |-> ret, was |-> TxState(transactions, tx),
     wrote |-> wrote]

(***************************************************************************)
(* TransactionManager                                                      *)
(***************************************************************************)
\* a counter that is read but not advanced
generate_transaction_id_stuck == next_transaction_id_

\* generate_transaction_id(): fetch_add(1) returns the old value and stores this
generate_transaction_id_next == next_transaction_id_ + 1

\* begin_transaction(): the whole body runs under transaction_mutex_.
begin_transaction ==
    /\ created < MaxTx
    /\ created' = created + 1
    /\ LET tx_id == next_transaction_id_
       IN  /\ next_transaction_id_' = generate_transaction_id_next
           /\ transactions' = [t \in DOMAIN transactions \cup {tx_id} |->
                                 IF t = tx_id THEN Transaction(tx_id) ELSE transactions[t]]
           /\ active_transactions_' = active_transactions_ \cup {tx_id}
           /\ begun' = Append(begun, tx_id)
           /\ last' = Call("begin", 0, "id", 0)
    /\ replayed' = << >>
    /\ UNCHANGED <<wal, swept, incomplete, notTxVars>>

\* the ids a caller may pass: the ids this manager handed out
CallerIds == DOMAIN transactions

add_log_entry(tx_id, entry) ==
    /\ replayed' = << >>
    /\ IF tx_id \notin active_transactions_
       THEN /\ last' = Call("append", 0, "TransactionNotFoundException", 0)
            /\ UNCHANGED transactions
       ELSE IF ~transactions[tx_id].is_active
       THEN /\ last' = Call("append", 0, "TransactionAbortedException", 0)
            /\ UNCHANGED transactions
       ELSE /\ Len(transactions[tx_id].log_entries) < MaxEntries
            /\ transactions' = [transactions EXCEPT ![tx_id].log_entries =
                                   Append(@, update_checksum(entry))]
            /\ last' = Call("append", 0, "void", 0)
    /\ UNCHANGED <<next_transaction_id_, active_transactions_, wal,
                   created, begun, swept, incomplete, notTxVars, guard>>

\* a commit that never looks at is_aborted
CommitRefusesAborted_never(tx_id) == FALSE

\* commit_transaction, lines 221-224: an aborted transaction is refused
CommitRefusesAborted(tx_id) == transactions[tx_id].is_aborted

\* a write loop that walks the staged list from its end
CommitRecords_reversed(tx_id) ==
    LET staged == transactions[tx_id].log_entries
    IN [i \in 1..Len(staged) |-> staged[Len(staged) + 1 - i]]

\* The records commit_transaction appends when every write succeeds.
CommitRecords(tx_id) == transactions[tx_id].log_entries

\* commit_transaction(tx_id).  fail_at = 0: every write_log_entry succeeds;
\* fail_at = f > 0: the f-th write_log_entry throws, after f - 1 records reached
\* the file (each write is flushed).
commit_transaction(tx_id, fail_at) ==
    /\ IF tx_id \notin active_transactions_
       THEN /\ fail_at = 0
            /\ last' = Call("commit", tx_id, "TransactionNotFoundException", 0)
            /\ UNCHANGED <<transactions, active_transactions_, wal, incomplete>>
       ELSE IF CommitRefusesAborted(tx_id)
       THEN /\ fail_at = 0
            /\ last' = Call("commit", tx_id, "false", 0)
            /\ UNCHANGED <<transactions, active_transactions_, wal, incomplete>>
       ELSE IF transactions[tx_id].is_committed
       THEN /\ fail_at = 0
            /\ last' = Call("commit", tx_id, "true", 0)
            /\ UNCHANGED <<transactions, active_transactions_, wal, incomplete>>
       ELSE IF fail_at = 0
       THEN /\ wal' = wal \o CommitRecords(tx_id)
            /\ transactions' = [transactions EXCEPT ![tx_id] =
                                   Destroyed([@ EXCEPT !.is_committed = TRUE,
                                                       !.is_active = FALSE])]
            /\ active_transactions_' = active_transactions_ \ {tx_id}
            /\ last' = Call("commit", tx_id, "true", Len(CommitRecords(tx_id)))
            /\ UNCHANGED incomplete
       ELSE /\ fail_at \in 1..Len(CommitRecords(tx_id))
            /\ wal' = wal \o SubSeq(CommitRecords(tx_id), 1, fail_at - 1)
            /\ incomplete' = incomplete \cup (Len(wal) + 1 .. Len(wal) + fail_at - 1)
            /\ transactions' = [transactions EXCEPT ![tx_id].is_aborted = TRUE,
                                                     ![tx_id].is_active = FALSE]
            /\ last' = Call("commit", tx_id, "false", fail_at - 1)
            /\ UNCHANGED active_transactions_
    /\ replayed' = << >>
    /\ UNCHANGED <<next_transaction_id_, created, begun, swept, notTxVars>>

rollback_transaction(tx_id) ==
    /\ IF tx_id \notin active_transactions_
       THEN /\ last' = Call("rollback", tx_id, "TransactionNotFoundException", 0)
            /\ UNCHANGED <<transactions, active_transactions_>>
       ELSE IF transactions[tx_id].is_committed
       THEN /\ last' = Call("rollback", tx_id, "false", 0)
            /\ UNCHANGED <<transactions, active_transactions_>>
       ELSE IF transactions[tx_id].is_aborted
       THEN /\ last' = Call("rollback", tx_id, "true", 0)
            /\ UNCHANGED <<transactions, active_transactions_>>
       ELSE /\ transactions' = [transactions EXCEPT ![tx_id] =
                                   Destroyed([@ EXCEPT !.is_aborted = TRUE,
                                                       !.is_active = FALSE])]
            /\ active_transactions_' = active_transactions_ \ {tx_id}
            /\ last' = Call("rollback", tx_id, "true", 0)
    /\ replayed' = << >>
    /\ UNCHANGED <<next_transaction_id_, wal, created, begun, swept,
                   incomplete, notTxVars>>

\* cleanup_expired_transactions(): one pass over the map under transaction_mutex_.
cleanup_expired_transactions ==
    LET expired == {t \in active_transactions_ : is_expired(t)}
    IN  /\ transactions' = [t \in DOMAIN transactions |->
                              IF t \in expired
                              THEN Destroyed([transactions[t] EXCEPT
                                                 !.is_aborted = TRUE,
                                                 !.is_active = FALSE])
                              ELSE transactions[t]]
        /\ active_transactions_' = active_transactions_ \ expired
        /\ swept' = swept \cup expired
        /\ last' = Call("sweep", 0, "void", 0)
        /\ replayed' = << >>
        /\ UNCHANGED <<next_transaction_id_, wal, created, begun,
                       incomplete, notTxVars, guard>>

\* replay_log_entries(): every record of the file that deserializes and whose
\* checksum validates is counted as replayed, whatever its transaction or kind.
RECURSIVE ReplayFrom(_, _)
ReplayFrom(log, i) ==
    IF i > Len(log) THEN << >>
    ELSE IF is_valid(log[i]) THEN <<i>> \o ReplayFrom(log, i + 1)
    ELSE ReplayFrom(log, i + 1)

replay_log_entries(log) == ReplayFrom(log, 1)

\* a recovery that consumes what it read: the first record leaves the file
recover_draining ==
    /\ replayed' = replay_log_entries(wal)
    /\ wal' = IF wal = << >> THEN wal ELSE Tail(wal)
    /\ last' = Call("recover", 0, "void", 0)
    /\ UNCHANGED <<next_transaction_id_, transactions, active_transactions_,
                   created, begun, swept, incomplete, notTxVars, guard>>

recover ==
    /\ replayed' = replay_log_entries(wal)
    /\ last' = Call("recover", 0, "void", 0)
    /\ UNCHANGED <<next_transaction_id_, transactions, active_transactions_, wal,
                   created, begun, swept, incomplete, notTxVars, guard>>

\* The steady clock advances by one tick: every Transaction in the map is one
\* tick older.  (Enabled while one of them has yet to expire: a later tick
\* changes nothing any operation reads.)
Tick ==
    /\ \E t \in active_transactions_ : ~is_expired(t)
    /\ transactions' = [t \in DOMAIN transactions |->
                          IF t \in active_transactions_ /\ ~is_expired(t)
                          THEN [transactions[t] EXCEPT !.elapsed = @ + 1]
                          ELSE transactions[t]]
    /\ UNCHANGED <<next_transaction_id_, active_transactions_, wal,
                   created, begun, swept, incomplete, last, replayed, notTxVars, guard>>

\* The process dies and a new TransactionManager is constructed on the same log
\* file (opened std::ios::app).  written > 0: it dies inside commit_transaction
\* of an active transaction, after `written` of its records reached the file.
Crash(tx_id, written) ==
    /\ IF written = 0
       THEN /\ tx_id = 0
            /\ UNCHANGED <<wal, incomplete>>
       ELSE /\ tx_id \in active_transactions_
            /\ transactions[tx_id].is_active
            /\ written \in 1..Len(transactions[tx_id].log_entries)
            /\ wal' = wal \o SubSeq(transactions[tx_id].log_entries, 1, written)
            /\ incomplete' = IF written < Len(transactions[tx_id].log_entries)
                              THEN incomplete \cup (Len(wal) + 1 .. Len(wal) + written)
                              ELSE incomplete
    /\ next_transaction_id_' = 1
    /\ transactions' = << >>
    /\ active_transactions_' = {}
    /\ begun' = << >>
    /\ swept' = {}
    /\ last' = NoCall
    /\ replayed' = << >>
    /\ UNCHANGED <<created, notTxVars, guard>>

\* The medium damages a record of the log file where it lies: its stored
\* checksum comes back changed in the lowest bit.  This is no call of the
\* manager, so no call counts as the last one any more.
CorruptRecord(i) ==
    /\ i \in 1..Len(wal)
    /\ is_valid(wal[i])
    /\ wal' = [wal EXCEPT ![i].checksum = XOR(@, 1)]
    /\ last' = NoCall
    /\ replayed' = << >>
    /\ UNCHANGED <<next_transaction_id_, transactions, active_transactions_,
                   created, begun, swept, incomplete, notTxVars, guard>>

InitTx ==
    /\ next_transaction_id_ = 1
    /\ transactions = << >>
    /\ active_transactions_ = {}
    /\ wal = << >>
    /\ created = 0
    /\ begun = << >>
    /\ swept = {}
    /\ incomplete = {}
    /\ last = NoCall
    /\ replayed = << >>

\* ------------------------------------------------------------------------
\* BlockManager (src/core/block_manager.cpp)
\* ------------------------------------------------------------------------

UINT32_MAX == -1    \* the "no block" value of find_next_free_block; it is
                    \* only ever compared for equality

total_blocks_ == Cardinality(DOMAIN block_bitmap_)

\* BlockManager::BlockManager: every block free but block 0
BlockManager(total_blocks) ==
    [b \in 0..(total_blocks - 1) |-> b # 0]

\* a call of the BlockManager: its arguments, how it ended ("ok", a warning or
\* the exception) and the blocks it returned
BlockCall(op, arg, status, blocks) ==
    [op |-> op, arg |-> arg, status |-> status, blocks |-> blocks]

\* a scan that starts at block 0 whatever the hint
find_next_free_block_lowest(bitmap, start_index) ==
    LET free == {i \in DOMAIN bitmap : bitmap[i]}
    IN IF free # {} THEN CHOOSE i \in free : \A j \in free : i <= j
       ELSE UINT32_MAX

\* first free block at or after start, else first free block before it
find_next_free_block(bitmap, start_index) ==
    LET n == Cardinality(DOMAIN bitmap)
        upper == {i \in start_index..(n - 1) : bitmap[i]}
        lower == {i \in 0..(start_index - 1) : bitmap[i]}
    IN IF upper # {} THEN CHOOSE i \in upper : \A j \in upper : i <= j
       ELSE IF lower # {} THEN CHOOSE i \in lower : \A j \in lower : i <= j
       ELSE UINT32_MAX

get_free_block_count == Cardinality({b \in DOMAIN block_bitmap_ : block_bitmap_[b]})

\* A thread that holds bitmap_mutex_ and locks it again (get_free_block_count
\* called from the allocators' failure path): std::mutex is not recursive, so
\* the behaviour is undefined.  The thread waits for itself forever, or the lock
\* call fails with std::system_error, or (a build whose lock does nothing, as
\* without thread support) the count is taken and InsufficientSpaceException is
\* thrown; in the last two the guard releases the mutex on the way out.
RelockOutcomes == {"deadlock", "system_error", "InsufficientSpaceException"}

MutexAfter(outcome) == IF outcome = "deadlock" THEN "stuck" ELSE "free"

allocate_block ==
    /\ bitmap_mutex_ = "free"
    /\ LET block_id == find_next_free_block(block_bitmap_, next_free_block_)
       IN IF block_id = UINT32_MAX
          THEN \E outcome \in RelockOutcomes :
                  /\ bitmap_mutex_' = MutexAfter(outcome)
                  /\ block_ret' = BlockCall("allocate_block", << >>, outcome, << >>)
                  /\ UNCHANGED <<block_bitmap_, next_free_block_>>
          ELSE /\ block_bitmap_' = [block_bitmap_ EXCEPT ![block_id] = FALSE]
               /\ next_free_block_' = (block_id + 1) % total_blocks_
               /\ block_ret' = BlockCall("allocate_block", << >>, "ok", <<block_id>>)
               /\ UNCHANGED bitmap_mutex_
    /\ UNCHANGED <<txVars, callVars, poolVars, guard, inodeVars, superVars, wall_clock, facadeVars, retryVars>>

\* block_bitmap_[i] as allocate_blocks reads it: an index past the end (the hint
\* after defragment_blocks of a full bitmap) reads whatever bit lies there
ReadBit(bitmap, i, beyond) == IF i \in DOMAIN bitmap THEN bitmap[i] ELSE beyond

\* the search loop of allocate_blocks: the start of the first run of count free
\* blocks met in total_blocks_ steps from the hint, or UINT32_MAX
RECURSIVE FindRun(_, _, _, _, _, _, _)
FindRun(bitmap, count, beyond, i, start_block, consecutive_count, current_block) ==
    LET n == Cardinality(DOMAIN bitmap)
    IN IF i >= n THEN UINT32_MAX
       ELSE IF ReadBit(bitmap, current_block, beyond)
            THEN IF consecutive_count + 1 = count THEN start_block
                 ELSE FindRun(bitmap, count, beyond, i + 1, start_block,
                              consecutive_count + 1, (current_block + 1) % n)
            ELSE FindRun(bitmap, count, beyond, i + 1, (current_block + 1) % n,
                         0, (current_block + 1) % n)

\* the blocks taken so far stay marked used
RollBack_none(bitmap, taken) == bitmap

\* the failure branch of the fallback loop marks every block taken so far free
RollBack(bitmap, taken) ==
    [b \in DOMAIN bitmap |->
        IF \E k \in 1..Len(taken) : taken[k] = b THEN TRUE ELSE bitmap[b]]

\* the fallback loop of allocate_blocks: one block at a time from the hint
RECURSIVE TakeSingly(_, _, _, _)
TakeSingly(bitmap, hint, taken, count) ==
    IF Len(taken) = count THEN [bitmap |-> bitmap, hint |-> hint, taken |-> taken, ok |-> TRUE]
    ELSE LET block_id == find_next_free_block(bitmap, hint)
         IN IF block_id = UINT32_MAX
            THEN [bitmap |-> RollBack(bitmap, taken),
                  hint |-> hint, taken |-> taken, ok |-> FALSE]
            ELSE TakeSingly([bitmap EXCEPT ![block_id] = FALSE],
                            (block_id + 1) % Cardinality(DOMAIN bitmap),
                            Append(taken, block_id), count)

allocate_blocks(count, beyond) ==
    IF count = 0
    THEN /\ block_ret' = BlockCall("allocate_blocks", <<count>>, "ok", << >>)
         /\ UNCHANGED <<block_bitmap_, next_free_block_, bitmap_mutex_>>
         /\ UNCHANGED <<txVars, callVars, poolVars, guard, inodeVars, superVars, wall_clock, facadeVars, retryVars>>
    ELSE
    /\ bitmap_mutex_ = "free"
    /\ LET start_block == FindRun(block_bitmap_, count, beyond, 0,
                                  next_free_block_, 0, next_free_block_)
           run == [j \in 1..count |-> (start_block + j - 1) % total_blocks_]
           single == TakeSingly(block_bitmap_, next_free_block_, << >>, count)
       IN IF start_block # UINT32_MAX
          THEN /\ block_bitmap_' = [b \in DOMAIN block_bitmap_ |->
                                      IF \E j \in 1..count : run[j] = b
                                      THEN FALSE ELSE block_bitmap_[b]]
               /\ next_free_block_' = (start_block + count) % total_blocks_
               /\ block_ret' = BlockCall("allocate_blocks", <<count>>, "ok", run)
               /\ UNCHANGED bitmap_mutex_
          ELSE IF single.ok
          THEN /\ block_bitmap_' = single.bitmap
               /\ next_free_block_' = single.hint
               /\ block_ret' = BlockCall("allocate_blocks", <<count>>, "ok", single.taken)
               /\ UNCHANGED bitmap_mutex_
          ELSE \E outcome \in RelockOutcomes :
                  /\ block_bitmap_' = single.bitmap
                  /\ next_free_block_' = single.hint
                  /\ bitmap_mutex_' = MutexAfter(outcome)
                  /\ block_ret' = BlockCall("allocate_blocks", <<count>>, outcome, << >>)
    /\ UNCHANGED <<txVars, callVars, poolVars, guard, inodeVars, superVars, wall_clock, facadeVars, retryVars>>

deallocate_block(block_id) ==
    /\ IF block_id >= total_blocks_
       THEN /\ block_ret' = BlockCall("deallocate_block", <<block_id>>, "BlockNotFoundException", << >>)
            /\ UNCHANGED <<block_bitmap_, next_free_block_, bitmap_mutex_>>
       ELSE /\ bitmap_mutex_ = "free"
            /\ IF block_bitmap_[block_id]
               THEN /\ block_ret' = BlockCall("deallocate_block", <<block_id>>, "already free", << >>)
                    /\ UNCHANGED block_bitmap_
               ELSE /\ block_bitmap_' = [block_bitmap_ EXCEPT ![block_id] = TRUE]
                    /\ block_ret' = BlockCall("deallocate_block", <<block_id>>, "ok", << >>)
            /\ UNCHANGED <<next_free_block_, bitmap_mutex_>>
    /\ UNCHANGED <<txVars, callVars, poolVars, guard, inodeVars, superVars, wall_clock, facadeVars, retryVars>>

\* ids past the end are skipped, the others end up free
deallocate_blocks(block_ids) ==
    /\ bitmap_mutex_ = "free"
    /\ block_bitmap_' = [b \in DOMAIN block_bitmap_ |->
                            IF \E k \in 1..Len(block_ids) : block_ids[k] = b
                            THEN TRUE ELSE block_bitmap_[b]]
    /\ block_ret' = BlockCall("deallocate_blocks", block_ids, "ok", << >>)
    /\ UNCHANGED <<next_free_block_, bitmap_mutex_>>
    /\ UNCHANGED <<txVars, callVars, poolVars, guard, inodeVars, superVars, wall_clock, facadeVars, retryVars>>

\* a lookup that takes a set bit for "in use"
is_block_free_inverted(block_id) ==
    IF block_id >= total_blocks_ THEN FALSE ELSE ~block_bitmap_[block_id]

\* is_block_free takes no lock
is_block_free(block_id) ==
    IF block_id >= total_blocks_ THEN FALSE ELSE block_bitmap_[block_id]

mark_block(op, block_id, free) ==
    /\ IF block_id >= total_blocks_
       THEN /\ block_ret' = BlockCall(op, <<block_id>>, "BlockNotFoundException", << >>)
            /\ UNCHANGED <<block_bitmap_, next_free_block_, bitmap_mutex_>>
       ELSE /\ bitmap_mutex_ = "free"
            /\ block_bitmap_' = [block_bitmap_ EXCEPT ![block_id] = free]
            /\ block_ret' = BlockCall(op, <<block_id>>, "ok", << >>)
            /\ UNCHANGED <<next_free_block_, bitmap_mutex_>>
    /\ UNCHANGED <<txVars, callVars, poolVars, guard, inodeVars, superVars, wall_clock, facadeVars, retryVars>>

mark_block_used(block_id) == mark_block("mark_block_used", block_id, FALSE)

mark_block_free(block_id) == mark_block("mark_block_free", block_id, TRUE)

\* the used blocks are packed at the front; the hint becomes their count, which
\* is total_blocks_ when nothing is free
defragment_blocks ==
    /\ bitmap_mutex_ = "free"
    /\ LET used_count == total_blocks_ - get_free_block_count
       IN /\ block_bitmap_' = [b \in DOMAIN block_bitmap_ |-> b >= used_count]
          /\ next_free_block_' = used_count
    /\ block_ret' = BlockCall("defragment_blocks", << >>, "ok", << >>)
    /\ UNCHANGED bitmap_mutex_
    /\ UNCHANGED <<txVars, callVars, poolVars, guard, inodeVars, superVars, wall_clock, facadeVars, retryVars>>

\* BlockManager::is_valid
BlockManagerIsValid == total_blocks_ > 0 => ~block_bitmap_[0]

\* ------------------------------------------------------------------------
\* InodeTable (src/core/inode.cpp)
\* ------------------------------------------------------------------------

\* InodeTable::InodeTable: every inode free but 0 (invalid) and 1 (root)
InodeTable(max_inodes) ==
    [i \in 0..(max_inodes - 1) |-> i > 1]

\* a call of the InodeTable: its argument, how it ended and the inode returned
InodeCall(op, arg, status, inodes) ==
    [op |-> op, arg |-> arg, status |-> status, inodes |-> inodes]

get_total_inode_count == Cardinality(DOMAIN free_inodes_)

get_free_inode_count == Cardinality({i \in DOMAIN free_inodes_ : free_inodes_[i]})

\* the two scans of allocate_inode: from the hint to the end, then from 1 up to
\* the hint; UINT32_MAX when neither finds a free inode
FindFreeInode ==
    LET upper == {i \in next_free_inode_..(get_total_inode_count - 1) : free_inodes_[i]}
        lower == {i \in 1..(next_free_inode_ - 1) : free_inodes_[i]}
    IN IF upper # {} THEN CHOOSE i \in upper : \A j \in upper : i <= j
       ELSE IF lower # {} THEN CHOOSE i \in lower : \A j \in lower : i <= j
       ELSE UINT32_MAX

\* the failure path calls get_free_inode_count, which locks table_mutex_ again
allocate_inode ==
    /\ table_mutex_ = "free"
    /\ LET i == FindFreeInode
       IN IF i = UINT32_MAX
          THEN \E outcome \in RelockOutcomes :
                  /\ table_mutex_' = MutexAfter(outcome)
                  /\ inode_ret' = InodeCall("allocate_inode", << >>, outcome, << >>)
                  /\ UNCHANGED <<free_inodes_, next_free_inode_>>
          ELSE /\ free_inodes_' = [free_inodes_ EXCEPT ![i] = FALSE]
               /\ next_free_inode_' = (i + 1) % get_total_inode_count
               /\ inode_ret' = InodeCall("allocate_inode", << >>, "ok", <<i>>)
               /\ UNCHANGED table_mutex_
    /\ UNCHANGED <<txVars, callVars, poolVars, guard, blockVars, superVars, wall_clock, facadeVars, retryVars>>

deallocate_inode(inode_num) ==
    /\ IF inode_num >= get_total_inode_count
       THEN /\ inode_ret' = InodeCall("deallocate_inode", <<inode_num>>, "InodeNotFoundException", << >>)
            /\ UNCHANGED <<free_inodes_, next_free_inode_, table_mutex_>>
       ELSE /\ table_mutex_ = "free"
            /\ IF free_inodes_[inode_num]
               THEN /\ inode_ret' = InodeCall("deallocate_inode", <<inode_num>>, "already free", << >>)
                    /\ UNCHANGED free_inodes_
               ELSE /\ free_inodes_' = [free_inodes_ EXCEPT ![inode_num] = TRUE]
                    /\ inode_ret' = InodeCall("deallocate_inode", <<inode_num>>, "ok", << >>)
            /\ UNCHANGED <<next_free_inode_, table_mutex_>>
    /\ UNCHANGED <<txVars, callVars, poolVars, guard, blockVars, superVars, wall_clock, facadeVars, retryVars>>

\* what a lookup gives: the exception, or the pointer to inodes_[inode_num]
InodeLookup(found, inode_num) ==
    IF found THEN [status |-> "ok", inodes |-> <<inode_num>>]
    ELSE [status |-> "InodeNotFoundException", inodes |-> << >>]

\* a lookup that checks the range only
get_inode_unchecked(inode_num) ==
    InodeLookup(inode_num < get_total_inode_count, inode_num)

\* get_inode takes no lock
get_inode(inode_num) ==
    InodeLookup(~(inode_num >= get_total_inode_count \/ free_inodes_[inode_num]),
                inode_num)

is_inode_free(inode_num) ==
    IF inode_num >= get_total_inode_count THEN FALSE ELSE free_inodes_[inode_num]

\* ------------------------------------------------------------------------
\* SuperBlock (src/core/superblock.cpp)
\* ------------------------------------------------------------------------

\* A uint32 whose top bit may be set is kept as the set of its 1-bits (bit 0 the
\* lowest); the magic number and the checksum are such values.
RECURSIVE BitsFrom(_, _)
BitsFrom(v, n) ==
    IF v = 0 THEN {}
    ELSE (IF v % 2 = 1 THEN {n} ELSE {}) \cup BitsFrom(v \div 2, n + 1)

Bits(v) == BitsFrom(v, 0)

\* 0xDF5F0001
MAGIC_NUMBER == {0, 16, 17, 18, 19, 20, 22, 24, 25, 26, 27, 28, 30, 31}

SizeofSuperBlock == 120

\* where each field lies in the struct: seven uint32, four bytes of alignment,
\* two uint64, two uint32, then padding[64]
FieldOffset ==
    [magic_number |-> 0, block_size |-> 4, total_blocks |-> 8, free_blocks |-> 12,
     inode_count |-> 16, free_inodes |-> 20, root_inode |-> 24,
     last_mount_time |-> 32, last_write_time |-> 40, version |-> 48, checksum |-> 52]

SymDiff(a, b) == (a \ b) \cup (b \ a)

\* one turn of calculate_checksum's loop on a zero byte
ShiftStep(c) ==
    LET shifted == {n + 1 : n \in {m \in c : m < 31}}
    IN IF 31 \in shifted THEN SymDiff(shifted, Bits(CRC_POLY)) ELSE shifted

\* a value that has become zero stays zero
RECURSIVE ShiftBy(_, _)
ShiftBy(c, k) == IF k = 0 \/ c = {} THEN c ELSE ShiftBy(ShiftStep(c), k - 1)

\* The loop is linear over xor, so the checksum of the struct is the xor of what
\* each 1-bit of it leaves behind: bit j of the byte at offset i is shifted
\* SizeofSuperBlock - 1 - i more times, and a lone bit j is bit 0 shifted j times.
\* ChecksumBasis[k] is what bit 0 becomes after k turns.
ChecksumBasis == [k \in 0..(SizeofSuperBlock + 6) |-> ShiftBy({0}, k)]

\* the 1-bits of a little-endian field, as <<byte offset, bit in the byte>>
FieldCells(offset, bits) == {<<offset + (n \div 8), n % 8>> : n \in bits}

\* the 1-bits of the struct with its checksum field zeroed.  The alignment bytes
\* and the padding are taken as zero: padding is cleared by the constructor, and
\* the alignment bytes are carried along by every copy of the struct, so they add
\* the same to the stored and to the recomputed checksum.
SuperBlockCells(sb) ==
    FieldCells(FieldOffset.magic_number, sb.magic_number)
    \cup UNION {FieldCells(FieldOffset[f], Bits(sb[f])) :
                   f \in {"block_size", "total_blocks", "free_blocks", "inode_count",
                          "free_inodes", "root_inode", "last_mount_time",
                          "last_write_time", "version"}}

RECURSIVE XorOfCells(_, _)
XorOfCells(cells, acc) ==
    IF cells = {} THEN acc
    ELSE LET c == CHOOSE x \in cells : TRUE
         IN XorOfCells(cells \ {c},
                       SymDiff(acc, ChecksumBasis[SizeofSuperBlock - 1 - c[1] + c[2]]))

calculate_checksum(sb) == XorOfCells(SuperBlockCells(sb), {})

SuperBlock_update_checksum(sb) == [sb EXCEPT !.checksum = calculate_checksum(sb)]

initialize(total_blocks, block_size, now) ==
    SuperBlock_update_checksum(
        [magic_number |-> MAGIC_NUMBER,
         block_size |-> block_size,
         total_blocks |-> total_blocks,
         free_blocks |-> total_blocks - 1,
         inode_count |-> total_blocks \div 4,
         free_inodes |-> (total_blocks \div 4) - 1,
         root_inode |-> 1,
         version |-> 1,
         last_mount_time |-> now,
         last_write_time |-> now,
         checksum |-> {}])

IsPowerOfTwo(n) == \E k \in 0..30 : n = 2^k

SuperBlock_is_valid(sb) ==
    /\ sb.magic_number = MAGIC_NUMBER
    /\ IsPowerOfTwo(sb.block_size) /\ sb.block_size <= 65536
    /\ sb.total_blocks >= 10
    /\ sb.inode_count # 0 /\ sb.inode_count <= sb.total_blocks
    /\ sb.free_blocks <= sb.total_blocks
    /\ sb.free_inodes <= sb.inode_count
    /\ sb.root_inode # 0 /\ sb.root_inode < sb.inode_count
    /\ sb.version # 0
    /\ sb.checksum = calculate_checksum(sb)

SuperCall(op, ret) == [op |-> op, ret |-> ret]

\* the four counter operations: refuse at the limit, else move the counter,
\* stamp last_write_time and refresh the checksum
Written(sb) == SuperBlock_update_checksum([sb EXCEPT !.last_write_time = wall_clock])

SuperBlock_allocate_block ==
    /\ IF superblock.free_blocks = 0
       THEN /\ superblock_ret' = SuperCall("allocate_block", "false")
            /\ UNCHANGED superblock
       ELSE /\ superblock' = Written([superblock EXCEPT !.free_blocks = @ - 1])
            /\ superblock_ret' = SuperCall("allocate_block", "true")
    /\ UNCHANGED <<txVars, callVars, poolVars, guard, blockVars, inodeVars, wall_clock, facadeVars, retryVars, superblock_file>>

SuperBlock_deallocate_block ==
    /\ IF superblock.free_blocks >= superblock.total_blocks
       THEN /\ superblock_ret' = SuperCall("deallocate_block", "false")
            /\ UNCHANGED superblock
       ELSE /\ superblock' = Written([superblock EXCEPT !.free_blocks = @ + 1])
            /\ superblock_ret' = SuperCall("deallocate_block", "true")
    /\ UNCHANGED <<txVars, callVars, poolVars, guard, blockVars, inodeVars, wall_clock, facadeVars, retryVars, superblock_file>>

SuperBlock_allocate_inode ==
    /\ IF superblock.free_inodes = 0
       THEN /\ superblock_ret' = SuperCall("allocate_inode", "false")
            /\ UNCHANGED superblock
       ELSE /\ superblock' = Written([superblock EXCEPT !.free_inodes = @ - 1])
            /\ superblock_ret' = SuperCall("allocate_inode", "true")
    /\ UNCHANGED <<txVars, callVars, poolVars, guard, blockVars, inodeVars, wall_clock, facadeVars, retryVars, superblock_file>>

SuperBlock_deallocate_inode ==
    /\ IF superblock.free_inodes >= superblock.inode_count
       THEN /\ superblock_ret' = SuperCall("deallocate_inode", "false")
            /\ UNCHANGED superblock
       ELSE /\ superblock' = Written([superblock EXCEPT !.free_inodes = @ + 1])
            /\ superblock_ret' = SuperCall("deallocate_inode", "true")
    /\ UNCHANGED <<txVars, callVars, poolVars, guard, blockVars, inodeVars, wall_clock, facadeVars, retryVars, superblock_file>>

update_mount_time ==
    /\ superblock' = SuperBlock_update_checksum(
                         [superblock EXCEPT !.last_mount_time = wall_clock])
    /\ superblock_ret' = SuperCall("update_mount_time", "true")
    /\ UNCHANGED <<txVars, callVars, poolVars, guard, blockVars, inodeVars, wall_clock, facadeVars, retryVars, superblock_file>>

\* what the stream does with the write: "ok", "not open" (nothing is tried) or
\* "failed" (nothing reaches the device)
StreamOutcomes == {"ok", "not open", "failed"}

\* the struct is written as it is, then last_write_time is set through a
\* const_cast; the checksum is not refreshed
serialize(outcome) ==
    /\ IF outcome = "ok"
       THEN /\ superblock_file' = <<superblock>>
            /\ superblock' = [superblock EXCEPT !.last_write_time = wall_clock]
            /\ superblock_ret' = SuperCall("serialize", "true")
       ELSE /\ superblock_ret' = SuperCall("serialize", "FileSystemException")
            /\ UNCHANGED <<superblock, superblock_file>>
    /\ UNCHANGED <<txVars, callVars, poolVars, guard, blockVars, inodeVars, wall_clock, facadeVars, retryVars>>

\* the struct is overwritten with what the file holds, then validated
deserialize ==
    /\ IF superblock_file = << >>
       THEN /\ superblock_ret' = SuperCall("deserialize", "FileSystemException")
            /\ UNCHANGED superblock
       ELSE /\ superblock' = superblock_file[1]
            /\ superblock_ret' =
                  SuperCall("deserialize",
                            IF SuperBlock_is_valid(superblock_file[1]) THEN "true"
                            ELSE "FileSystemCorruptedException")
    /\ UNCHANGED <<txVars, callVars, poolVars, guard, blockVars, inodeVars, wall_clock, facadeVars, retryVars, superblock_file>>

\* ------------------------------------------------------------------------
\* One formatted file system: the superblock of format(device, total_blocks)
\* and the two allocators built from it (FileSystem's members)
\* ------------------------------------------------------------------------

DEFAULT_BLOCK_SIZE == 4096

InitSuperBlock(total_blocks) ==
    /\ wall_clock = 0
    /\ superblock = initialize(total_blocks, DEFAULT_BLOCK_SIZE, 0)
    /\ superblock_ret = SuperCall("initialize", "true")
    /\ superblock_file = << >>

InitBlockManager(total_blocks) ==
    /\ block_bitmap_ = BlockManager(total_blocks)
    /\ next_free_block_ = IF total_blocks > 0 THEN 1 ELSE 0
    /\ bitmap_mutex_ = "free"
    /\ block_ret = BlockCall("BlockManager", << >>, "ok", << >>)

InitInodeTable(max_inodes) ==
    /\ free_inodes_ = InodeTable(max_inodes)
    /\ next_free_inode_ = 1
    /\ table_mutex_ = "free"
    /\ inode_ret = InodeCall("InodeTable", << >>, "ok", << >>)

InitFs ==
    /\ InitSuperBlock(FormatBlocks)
    /\ InitBlockManager(FormatBlocks)
    /\ InitInodeTable(FormatBlocks \div 4)

\* system_clock moves on between calls
WallTick ==
    /\ wall_clock < MaxWallClock
    /\ wall_clock' = wall_clock + 1
    /\ UNCHANGED <<txVars, callVars, poolVars, guard, blockVars, inodeVars, superVars, facadeVars, retryVars>>

\* ------------------------------------------------------------------------
\* FileSystem: the facade over the four components.  The class is declared
\* in file_system.h and none of its member functions is defined in the
\* repository, so the operations below follow the design document: the
\* contracts of the public operations, the per-inode lock table and the lock
\* ordering.
\* ------------------------------------------------------------------------
Threads == 1..MaxThreads

InodeNumbers == 0..(FacadeInodes - 1)

ROOT_INODE == 1

\* the file "/a" every formatted image of the model starts with
FILE_A == 2

MaxFileSize == MaxFileBlocks * BlockSize

Min(a, b) == IF a < b THEN a ELSE b

\* what a caller thread writes: a pattern that starts with the thread's number
Pattern(t, n) == [k \in 1..n |-> 1 + ((k + t - 2) % MaxThreads)]

\* an Inode of the table together with the blocks its pointers lead to
FreeInode == [mode |-> "free", parent |-> 0, size |-> 0, blocks |-> << >>]

NewInode(mode, parent) == [mode |-> mode, parent |-> parent, size |-> 0, blocks |-> << >>]

\* ---- data blocks ----
\* a block holds BlockSize bytes; the tail of the last block is zero
PadBlock(bytes) == [k \in 1..BlockSize |-> IF k <= Len(bytes) THEN bytes[k] ELSE 0]

BlocksFor(size) == (size + BlockSize - 1) \div BlockSize

write_file_blocks(data) ==
    [b \in 1..BlocksFor(Len(data)) |->
        PadBlock(SubSeq(data, (b - 1) * BlockSize + 1, Min(b * BlockSize, Len(data))))]

\* every byte of every block, in pointer order
JoinBlocks(blocks) ==
    [k \in 1..(Len(blocks) * BlockSize) |->
        blocks[((k - 1) \div BlockSize) + 1][((k - 1) % BlockSize) + 1]]

\* a read that returns whole blocks
read_file_blocks_whole(inode) == JoinBlocks(inode.blocks)

\* the blocks of the pointer tree, cut at the inode's size
read_file_blocks(inode) == SubSeq(JoinBlocks(inode.blocks), 1, inode.size)

\* data written at an offset: the bytes before it stay, a hole reads zero
WriteAt(inode, offset, data) ==
    LET old == JoinBlocks(inode.blocks)
        new == [k \in 1..(offset + Len(data)) |->
                   IF k > offset THEN data[k - offset]
                   ELSE IF k <= Len(old) THEN old[k] ELSE 0]
    IN [inode EXCEPT !.size = offset + Len(data), !.blocks = write_file_blocks(new)]

\* the largest byte value a caller of the model writes
MaxByte == IF MaxThreads > MaxTx THEN MaxThreads ELSE MaxTx

\* how often each byte value occurs
ByteCounts(bytes) ==
    [v \in 0..MaxByte |-> Cardinality({k \in 1..Len(bytes) : bytes[k] = v})]

\* what the completed calls put into a file: the bytes by value, the data when
\* the last of them was a replacement, the threads that appended since
Replaced(data) == [counts |-> ByteCounts(data), data |-> <<data>>, appenders |-> {}]

\* ---- the per-inode lock table ----
Unlocked == [writer |-> 0, readers |-> {}]

\* get_inode_mutex: the entry of the map.  An entry is made on first access
\* and never removed, so the map reads as one unlocked entry per inode number.
get_inode_mutex(inode_num) == inode_mutexes_[inode_num]

\* the lock step of a facade operation: the locks it needs as <<inode, mode>>
\* pairs in the order it takes them
RECURSIVE AscendingFrom(_, _)
AscendingFrom(inode_nums, mode) ==
    IF inode_nums = {} THEN << >>
    ELSE LET low == CHOOSE i \in inode_nums : \A j \in inode_nums : i <= j
         IN <<[inode |-> low, mode |-> mode]>> \o AscendingFrom(inode_nums \ {low}, mode)

\* the order the caller names them: the parent, then the other inode
LockOrder_as_named(first, second, mode) ==
    IF first = second THEN <<[inode |-> first, mode |-> mode]>>
    ELSE <<[inode |-> first, mode |-> mode], [inode |-> second, mode |-> mode]>>

\* ascending inode number, whichever of the two is the parent
LockOrder(first, second, mode) == AscendingFrom({first, second}, mode)

\* an append that locks the inode as a reader does
AppendLockMode_shared == "r"

AppendLockMode == "w"

Idle ==
    [op |-> "none", pc |-> "idle", plan |-> << >>, got |-> 0, inode |-> 0,
     other |-> 0, data |-> << >>, buffer |-> << >>, size |-> 0, ret |-> "none"]

\* std::shared_mutex: lock() waits for the writer and the readers to leave,
\* lock_shared() for the writer
CanLock(m, mode) == m.writer = 0 /\ (mode = "w" => m.readers = {})

Locked(m, mode, t) ==
    IF mode = "w" THEN [m EXCEPT !.writer = t] ELSE [m EXCEPT !.readers = @ \cup {t}]

\* entering a public operation: the mount lock is taken shared, the paths are
\* resolved to inode numbers and the first lock of the plan is taken.  A call
\* that waits for its first lock holds no inode lock: it is shown as a call
\* not made yet.
Enter(t, op, plan, inode_num, other, data) ==
    /\ thread[t].pc = "idle"
    /\ CanLock(get_inode_mutex(plan[1].inode), plan[1].mode)
    /\ inode_mutexes_' = [inode_mutexes_ EXCEPT ![plan[1].inode] = Locked(@, plan[1].mode, t)]
    /\ fs_mutex_' = fs_mutex_ \cup {t}
    /\ thread' = [thread EXCEPT ![t] =
                     [Idle EXCEPT !.op = op, !.pc = IF Len(plan) = 1 THEN "body" ELSE "lock",
                                  !.plan = plan, !.got = 1,
                                  !.inode = inode_num, !.other = other, !.data = data]]
    /\ UNCHANGED <<inodes_, published, expected>>
    /\ UNCHANGED <<txVars, callVars, poolVars, guard, blockVars, inodeVars, superVars, wall_clock, retryVars>>

InitFacade ==
    /\ fs_mutex_ = {}
    /\ inode_mutexes_ = [i \in InodeNumbers |-> Unlocked]
    /\ inodes_ = [i \in InodeNumbers |->
                    IF i = ROOT_INODE THEN NewInode("dir", ROOT_INODE)
                    ELSE IF i = FILE_A THEN NewInode("file", ROOT_INODE)
                    ELSE FreeInode]
    /\ published = {}
    /\ thread = [t \in Threads |-> Idle]
    /\ expected = [i \in InodeNumbers |-> Replaced(<< >>)]

\* ---- public operations: entry ----
read_file(t, inode_num) ==
    /\ inodes_[inode_num].mode = "file"
    /\ Enter(t, "read_file", <<[inode |-> inode_num, mode |-> "r"]>>, inode_num, 0, << >>)

write_file(t, inode_num, data) ==
    /\ inodes_[inode_num].mode = "file"
    /\ Enter(t, "write_file", <<[inode |-> inode_num, mode |-> "w"]>>, inode_num, 0, data)

append_file(t, inode_num, data) ==
    /\ inodes_[inode_num].mode = "file"
    /\ Enter(t, "append_file", <<[inode |-> inode_num, mode |-> AppendLockMode]>>,
             inode_num, 0, data)

\* create_file and create_directory: the writer lock of the parent
create(t, op, parent) ==
    /\ inodes_[parent].mode = "dir"
    /\ Enter(t, op, <<[inode |-> parent, mode |-> "w"]>>, 0, parent, << >>)

create_file(t, parent) == create(t, "create_file", parent)

create_directory(t, parent) == create(t, "create_directory", parent)

\* delete_file and delete_directory: the writer locks of the parent and of
\* the inode itself
delete(t, op, mode, inode_num) ==
    /\ inode_num # ROOT_INODE
    /\ inodes_[inode_num].mode = mode
    /\ Enter(t, op, LockOrder(inodes_[inode_num].parent, inode_num, "w"),
             inode_num, inodes_[inode_num].parent, << >>)

delete_file(t, inode_num) == delete(t, "delete_file", "file", inode_num)

delete_directory(t, inode_num) == delete(t, "delete_directory", "dir", inode_num)

\* rename of a file into the directory new_parent: the writer locks of both
\* parents, one lock when they are the same directory
rename(t, inode_num, new_parent) ==
    /\ inodes_[inode_num].mode = "file"
    /\ inodes_[new_parent].mode = "dir"
    /\ Enter(t, "rename", LockOrder(inodes_[inode_num].parent, new_parent, "w"),
             inode_num, new_parent, << >>)

\* ---- taking and releasing the inode locks ----
\* the next lock of the plan, taken when the shared_mutex allows it
lock_inodes(t) ==
    /\ thread[t].pc = "lock"
    /\ LET next == thread[t].plan[thread[t].got + 1]
       IN /\ CanLock(get_inode_mutex(next.inode), next.mode)
          /\ inode_mutexes_' = [inode_mutexes_ EXCEPT ![next.inode] = Locked(@, next.mode, t)]
          /\ thread' = [thread EXCEPT ![t].got = @ + 1,
                                      ![t].pc = IF thread[t].got + 1 = Len(thread[t].plan)
                                                THEN "body" ELSE "lock"]
    /\ UNCHANGED <<fs_mutex_, inodes_, published, expected>>
    /\ UNCHANGED <<txVars, callVars, poolVars, guard, blockVars, inodeVars, superVars, wall_clock, retryVars>>

\* the lock table once thread t has let go of what it holds
Released(t) ==
    [i \in DOMAIN inode_mutexes_ |->
        [writer |-> IF inode_mutexes_[i].writer = t THEN 0 ELSE inode_mutexes_[i].writer,
         readers |-> inode_mutexes_[i].readers \ {t}]]

\* the end of a file I/O operation: the locks go in one step and the thread is
\* idle
unlock_inodes(t) ==
    /\ thread[t].pc = "unlock"
    /\ inode_mutexes_' = Released(t)
    /\ fs_mutex_' = fs_mutex_ \ {t}
    /\ thread' = [thread EXCEPT ![t] = Idle]
    /\ UNCHANGED <<inodes_, published, expected>>
    /\ UNCHANGED <<txVars, callVars, poolVars, guard, blockVars, inodeVars, superVars, wall_clock, retryVars>>

\* ---- bodies, run with every lock of the plan held ----
Finish(t, ret) == [thread EXCEPT ![t].pc = "unlock", ![t].ret = ret]

\* the return of a namespace operation: its lock guards go out of scope with
\* the body, whatever it returns
Return(t) ==
    /\ thread' = [thread EXCEPT ![t] = Idle]
    /\ inode_mutexes_' = Released(t)
    /\ fs_mutex_' = fs_mutex_ \ {t}

read_file_body(t) ==
    /\ thread[t].pc = "body" /\ thread[t].op = "read_file"
    /\ LET i == thread[t].inode
       IN IF inodes_[i].mode # "file"
          THEN thread' = Finish(t, "FileNotFound")
          ELSE thread' = [Finish(t, "ok") EXCEPT ![t].buffer = read_file_blocks(inodes_[i])]
    /\ UNCHANGED <<fs_mutex_, inode_mutexes_, inodes_, published, expected>>
    /\ UNCHANGED <<txVars, callVars, poolVars, guard, blockVars, inodeVars, superVars, wall_clock, retryVars>>

\* the new blocks replace the old extent in one transaction
write_file_body(t) ==
    /\ thread[t].pc = "body" /\ thread[t].op = "write_file"
    /\ LET i == thread[t].inode
           data == thread[t].data
       IN IF inodes_[i].mode # "file"
          THEN /\ thread' = Finish(t, "FileNotFound")
               /\ UNCHANGED <<inodes_, expected>>
          ELSE IF Len(data) > MaxFileSize
          THEN /\ thread' = Finish(t, "OutOfSpace")
               /\ UNCHANGED <<inodes_, expected>>
          ELSE /\ inodes_' = [inodes_ EXCEPT ![i].size = Len(data),
                                             ![i].blocks = write_file_blocks(data)]
               /\ expected' = [expected EXCEPT ![i] = Replaced(data)]
               /\ thread' = Finish(t, "ok")
    /\ UNCHANGED <<fs_mutex_, inode_mutexes_, published>>
    /\ UNCHANGED <<txVars, callVars, poolVars, guard, blockVars, inodeVars, superVars, wall_clock, retryVars>>

\* append_file reads the current size of the inode ...
append_file_size(t) ==
    /\ thread[t].pc = "body" /\ thread[t].op = "append_file"
    /\ LET i == thread[t].inode
       IN IF inodes_[i].mode # "file"
          THEN thread' = Finish(t, "FileNotFound")
          ELSE thread' = [thread EXCEPT ![t].pc = "extend", ![t].size = inodes_[i].size]
    /\ UNCHANGED <<fs_mutex_, inode_mutexes_, inodes_, published, expected>>
    /\ UNCHANGED <<txVars, callVars, poolVars, guard, blockVars, inodeVars, superVars, wall_clock, retryVars>>

\* ... and writes the data past it, with new blocks where the last one is full
append_file_extend(t) ==
    /\ thread[t].pc = "extend"
    /\ LET i == thread[t].inode
           data == thread[t].data
       IN IF thread[t].size + Len(data) > MaxFileSize
          THEN /\ thread' = Finish(t, "OutOfSpace")
               /\ UNCHANGED <<inodes_, expected>>
          ELSE /\ inodes_' = [inodes_ EXCEPT ![i] = WriteAt(@, thread[t].size, data)]
               /\ expected' = [expected EXCEPT ![i] =
                                  [counts |-> [v \in DOMAIN @.counts |->
                                                  @.counts[v] + ByteCounts(data)[v]],
                                   data |-> << >>,
                                   appenders |-> @.appenders \cup {t}]]
               /\ thread' = Finish(t, "ok")
    /\ UNCHANGED <<fs_mutex_, inode_mutexes_, published>>
    /\ UNCHANGED <<txVars, callVars, poolVars, guard, blockVars, inodeVars, superVars, wall_clock, retryVars>>

\* a fresh inode gets its entry in the parent directory.  The inode comes from
\* InodeTable::allocate_inode, called with the parent's lock held: with no
\* inode free that call locks table_mutex_ a second time.
create_body(t) ==
    /\ thread[t].pc = "body" /\ thread[t].op \in {"create_file", "create_directory"}
    /\ LET parent == thread[t].other
           free == {i \in InodeNumbers : i > ROOT_INODE /\ inodes_[i].mode = "free"}
           mode == IF thread[t].op = "create_file" THEN "file" ELSE "dir"
       IN IF inodes_[parent].mode # "dir"
          THEN /\ Return(t)
               /\ UNCHANGED <<inodes_, table_mutex_>>
          ELSE /\ table_mutex_ = "free"
               /\ IF free = {}
                  THEN \E outcome \in RelockOutcomes :
                          /\ table_mutex_' = MutexAfter(outcome)
                          /\ IF outcome = "deadlock"
                             THEN /\ thread' = [thread EXCEPT ![t].pc = "stuck"]
                                  /\ UNCHANGED <<fs_mutex_, inode_mutexes_>>
                             ELSE Return(t)
                          /\ UNCHANGED inodes_
                  ELSE \E i \in free :
                          /\ inodes_' = [inodes_ EXCEPT ![i] = NewInode(mode, parent)]
                          /\ Return(t)
                          /\ UNCHANGED table_mutex_
    /\ UNCHANGED <<published, expected>>
    /\ UNCHANGED <<free_inodes_, next_free_inode_, inode_ret>>
    /\ UNCHANGED <<txVars, callVars, poolVars, guard, blockVars, superVars, wall_clock, retryVars>>

\* the entry leaves the parent and the inode and its blocks are released
delete_body(t) ==
    /\ thread[t].pc = "body" /\ thread[t].op \in {"delete_file", "delete_directory"}
    /\ LET i == thread[t].inode
           mode == IF thread[t].op = "delete_file" THEN "file" ELSE "dir"
       IN IF inodes_[i].mode # mode \/ inodes_[i].parent # thread[t].other
          THEN /\ Return(t)
               /\ UNCHANGED <<inodes_, expected>>
          ELSE IF \E c \in InodeNumbers : inodes_[c].mode # "free" /\ inodes_[c].parent = i
          THEN /\ Return(t)
               /\ UNCHANGED <<inodes_, expected>>
          ELSE /\ inodes_' = [inodes_ EXCEPT ![i] = FreeInode]
               /\ expected' = [expected EXCEPT ![i] = Replaced(<< >>)]
               /\ Return(t)
    /\ UNCHANGED published
    /\ UNCHANGED <<txVars, callVars, poolVars, guard, blockVars, inodeVars, superVars, wall_clock, retryVars>>

\* the entry moves from the old parent to the new one in one transaction
rename_body(t) ==
    /\ thread[t].pc = "body" /\ thread[t].op = "rename"
    /\ LET i == thread[t].inode
           new_parent == thread[t].other
           held == {thread[t].plan[k].inode : k \in 1..Len(thread[t].plan)}
       IN IF inodes_[i].mode # "file" \/ inodes_[i].parent \notin held
          THEN /\ Return(t)
               /\ UNCHANGED inodes_
          ELSE IF inodes_[new_parent].mode # "dir"
          THEN /\ Return(t)
               /\ UNCHANGED inodes_
          ELSE /\ inodes_' = [inodes_ EXCEPT ![i].parent = new_parent]
               /\ Return(t)
    /\ UNCHANGED <<published, expected>>
    /\ UNCHANGED <<txVars, callVars, poolVars, guard, blockVars, inodeVars, superVars, wall_clock, retryVars>>

\* ---- the explicit transaction scope ----
\* begin_transaction, commit_transaction and rollback_transaction of the facade
\* hand the call to the TransactionManager.  A write_file inside the scope
\* stages its replacement as a record of the transaction:
StagedData(tx_id, k) == [j \in 1..k |-> tx_id]

StagedWrite(tx_id, k) ==
    [LogEntry(tx_id, OpCode("WRITE_BLOCK"), FILE_A, 0) EXCEPT !.new_data = StagedData(tx_id, k)]

\* the scope of tx_id ended, whatever the call that ended it returned
ScopeEnded(tx_id) ==
    /\ last.tx = tx_id
    /\ last.op \in {"commit", "rollback"}
    /\ last.ret \in {"true", "false"}

\* commit_transaction(tx_id) of the TransactionManager returned true
CommitReturnedTrue(tx_id) ==
    /\ last.tx = tx_id
    /\ last.op = "commit"
    /\ last.ret = "true"

\* the facade has a commit to make visible before it returns to its caller
PublishPending == \E tx_id \in DOMAIN transactions \ published : CommitReturnedTrue(tx_id)

\* the staged replacements of a committed transaction become the file
publish_committed(tx_id) ==
    /\ tx_id \in DOMAIN transactions \ published
    /\ CommitReturnedTrue(tx_id)
    /\ published' = published \cup {tx_id}
    /\ LET staged == transactions[tx_id].log_entries
       IN IF staged = << >>
          THEN UNCHANGED <<inodes_, expected>>
          ELSE LET data == staged[Len(staged)].new_data
               IN /\ inodes_' = [inodes_ EXCEPT ![FILE_A].size = Len(data),
                                                ![FILE_A].blocks = write_file_blocks(data)]
                  /\ expected' = [expected EXCEPT ![FILE_A] = Replaced(data)]
    /\ UNCHANGED <<fs_mutex_, inode_mutexes_, thread>>
    /\ UNCHANGED <<txVars, callVars, poolVars, guard, blockVars, inodeVars, superVars, wall_clock, retryVars>>

\* ------------------------------------------------------------------------
\* RetryHandler (src/utils/retry_handler.cpp and the templates of
\* retry_handler.h): one handler shared by the caller threads.  The attempt
\* counters of the statistics are written and never read by the handler;
\* last_failure_time_ is read only by should_reset_circuit_breaker, which
\* nothing calls.  Neither is kept.
\* ------------------------------------------------------------------------

ErrorTypes == {"TRANSIENT", "PERMANENT", "CORRUPTION", "CONCURRENCY",
               "TIMEOUT", "NETWORK", "UNKNOWN"}

should_retry(error_type, attempt_count) ==
    IF attempt_count >= max_retries THEN FALSE
    ELSE IF error_type \in {"TRANSIENT", "CONCURRENCY", "TIMEOUT", "NETWORK"} THEN TRUE
    ELSE IF error_type \in {"PERMANENT", "CORRUPTION"} THEN FALSE
    ELSE attempt_count < 1

\* a check for the wrong state
is_circuit_open_half == circuit_state_ = "HALF_OPEN"

is_circuit_open == circuit_state_ = "OPEN"

\* a thread outside execute_with_retry, with what its last call returned or threw
Resting(ret) ==
    [pc |-> "idle", attempt |-> 0, outcome |-> "none", retry |-> FALSE,
     failures |-> 0, invoked |-> FALSE, ret |-> ret]

InitRetry ==
    /\ circuit_state_ = "CLOSED"
    /\ consecutive_failures_ = 0
    /\ caller = [t \in Threads |-> Resting("none")]
    /\ last_failure_time_ = 0
    /\ steady_clock = 0

\* the head of the loop body: the circuit is looked at before the wrapped
\* function is called
CheckCircuit(t, attempt) ==
    /\ IF is_circuit_open
       THEN caller' = [caller EXCEPT ![t] = Resting("Circuit breaker is open")]
       ELSE caller' = [caller EXCEPT ![t] = [Resting("none") EXCEPT !.pc = "call",
                                                                   !.attempt = attempt]]
    /\ UNCHANGED <<circuit_state_, consecutive_failures_, last_failure_time_, steady_clock>>
    /\ UNCHANGED <<txVars, callVars, poolVars, guard, blockVars, inodeVars, superVars, wall_clock, facadeVars>>

\* execute_with_retry is called: attempt 0
execute_with_retry(t) ==
    /\ caller[t].pc = "idle"
    /\ CheckCircuit(t, 0)

\* the backoff delay is over: the next attempt
next_attempt(t) ==
    /\ caller[t].pc = "sleep"
    /\ CheckCircuit(t, caller[t].attempt + 1)

\* func(args...) returns ("ok") or throws an exception e of some class; what
\* should_retry(e, attempt) is going to answer is kept with it
invoke_func(t, outcome) ==
    /\ caller[t].pc = "call"
    /\ caller' = [caller EXCEPT ![t].pc = "update",
                                ![t].outcome = IF outcome = "ok" THEN "ok" ELSE "exception",
                                ![t].retry = /\ outcome # "ok"
                                             /\ should_retry(outcome, caller[t].attempt),
                                ![t].invoked = TRUE]
    /\ UNCHANGED <<circuit_state_, consecutive_failures_, last_failure_time_, steady_clock>>
    /\ UNCHANGED <<txVars, callVars, poolVars, guard, blockVars, inodeVars, superVars, wall_clock, facadeVars>>

\* update_circuit_breaker, the counter: cleared on success, fetch_add(1) + 1 on
\* failure
update_circuit_breaker_count(t) ==
    /\ caller[t].pc = "update"
    /\ IF caller[t].outcome = "ok"
       THEN /\ consecutive_failures_' = 0
            /\ caller' = [caller EXCEPT ![t].pc = "state"]
            /\ UNCHANGED last_failure_time_
       ELSE /\ consecutive_failures_' = consecutive_failures_ + 1
            /\ last_failure_time_' = steady_clock
            /\ caller' = [caller EXCEPT ![t].pc = "state",
                                        ![t].failures = consecutive_failures_ + 1]
    /\ UNCHANGED <<circuit_state_, steady_clock>>
    /\ UNCHANGED <<txVars, callVars, poolVars, guard, blockVars, inodeVars, superVars, wall_clock, facadeVars>>

\* update_circuit_breaker, the state, and what execute_with_retry does next:
\* return the result, rethrow, or sleep before another attempt
update_circuit_breaker_state(t) ==
    /\ caller[t].pc = "state"
    /\ IF caller[t].outcome = "ok"
       THEN /\ circuit_state_' = IF circuit_state_ = "HALF_OPEN" THEN "CLOSED"
                                 ELSE circuit_state_
            /\ caller' = [caller EXCEPT ![t] = [Resting("ok") EXCEPT !.invoked = TRUE]]
       ELSE /\ circuit_state_' =
                  IF caller[t].failures >= circuit_breaker_failure_threshold
                  THEN "OPEN" ELSE circuit_state_
            /\ IF caller[t].attempt = max_retries \/ ~caller[t].retry
               THEN caller' = [caller EXCEPT ![t] =
                                  [Resting("exception") EXCEPT !.invoked = TRUE]]
               ELSE caller' = [caller EXCEPT ![t] =
                                  [Resting("none") EXCEPT !.pc = "sleep",
                                                          !.attempt = caller[t].attempt]]
    /\ UNCHANGED <<consecutive_failures_, last_failure_time_, steady_clock>>
    /\ UNCHANGED <<txVars, callVars, poolVars, guard, blockVars, inodeVars, superVars, wall_clock, facadeVars>>

\* nothing calls it
should_reset_circuit_breaker ==
    /\ circuit_state_ = "OPEN"
    /\ steady_clock - last_failure_time_ >= 1

\* steady_clock moves on by one circuit_breaker_timeout
SteadyTick ==
    /\ steady_clock < MaxSteadyClock
    /\ steady_clock' = steady_clock + 1
    /\ UNCHANGED <<circuit_state_, consecutive_failures_, caller, last_failure_time_>>
    /\ UNCHANGED <<txVars, callVars, poolVars, guard, blockVars, inodeVars, superVars, wall_clock, facadeVars>>

reset_circuit_breaker ==
    /\ circuit_state_' = "CLOSED"
    /\ consecutive_failures_' = 0
    /\ last_failure_time_' = 0
    /\ UNCHANGED <<caller, steady_clock>>
    /\ UNCHANGED <<txVars, callVars, poolVars, guard, blockVars, inodeVars, superVars, wall_clock, facadeVars>>

\* ------------------------------------------------------------------------
\* No thread is inside a call, no guard exists, the pool has no work
\* ------------------------------------------------------------------------

SuperCaller(pc, op, reg, sum, ret) ==
    [pc |-> pc, op |-> op, reg |-> reg, sum |-> sum, ret |-> ret]

AllocCaller(pc, op, arg, ret) == [pc |-> pc, op |-> op, arg |-> arg, ret |-> ret]

Committer(pc, tx, written) == [pc |-> pc, tx |-> tx, written |-> written]

InitCallers ==
    /\ sb_caller = [t \in Threads |-> SuperCaller("idle", "none", 0, {}, "none")]
    /\ alloc_caller = [t \in Threads |-> AllocCaller("idle", "none", 0, "none")]
    /\ transaction_mutex_ = 0
    /\ committer = [t \in Threads |-> Committer("idle", 0, 0)]

TransactionGuard(state, transaction_id, committed) ==
    [state |-> state, transaction_id_ |-> transaction_id, committed_ |-> committed]

InitGuard == guard = TransactionGuard("none", 0, FALSE)

min_threads_ == 2

\* the worker threads the pool can have, and the thread that waits
Workers == 1..max_threads_

WAITER == 0

\* ThreadPool::ThreadPool: min_threads workers started, nothing queued
InitPool ==
    /\ tasks_ = 0
    /\ active_tasks_ = 0
    /\ total_tasks_queued_ = 0
    /\ condition_ = {}
    /\ pool_thread = [th \in Workers \cup {WAITER} |->
                         IF th > min_threads_ THEN "absent" ELSE "idle"]

InitRest == InitCallers /\ InitGuard /\ InitPool

Init == InitTx /\ InitFs /\ InitFacade /\ InitRetry /\ InitRest

Next ==
    \/ /\ begin_transaction
       /\ UNCHANGED guard
    \/ \E t \in CallerIds :
          add_log_entry(t, CallerEntry(t, Len(transactions[t].log_entries) + 1))
    \/ /\ \E t \in CallerIds : \E f \in 0..MaxEntries : commit_transaction(t, f)
       /\ UNCHANGED guard
    \/ /\ \E t \in CallerIds : rollback_transaction(t)
       /\ UNCHANGED guard
    \/ cleanup_expired_transactions
    \/ recover
    \/ Tick
    \/ \E t \in 0..MaxTx : \E w \in 0..MaxEntries : Crash(t, w)

Spec == Init /\ [][Next]_vars

(***************************************************************************)
(* Properties of the transaction manager, checked under Spec.              *)
(***************************************************************************)
Range(seq) == {seq[i] : i \in 1..Len(seq)}

IsCommitRecord(e, tx_id) ==
    e.transaction_id = tx_id /\ e.operation_type = OpCode("COMMIT")

\* C1: after commit(tx) returns success for an ACTIVE transaction, the log ends
\* with every record staged in tx, in staging order, immediately followed by a
\* COMMIT record carrying tx's id, and tx is COMMITTED and out of the map.
CommitAppendsStagedThenCommitRecord ==
    (last.op = "commit" /\ last.ret = "true" /\ last.was = "ACTIVE") =>
        LET staged == transactions[last.tx].log_entries
            n == Len(staged)
        IN  /\ Len(wal) >= n + 1
            /\ SubSeq(wal, Len(wal) - n, Len(wal) - 1) = staged
            /\ IsCommitRecord(wal[Len(wal)], last.tx)
            /\ transactions[last.tx].is_committed
            /\ last.tx \notin active_transactions_

Terminal(tx) == tx.is_committed \/ tx.is_aborted \/ ~tx.is_active

\* C4: a transaction's state moves only ACTIVE -> COMMITTED or ACTIVE -> ABORTED:
\* once it has left ACTIVE its flags never change again, it is never both
\* committed and aborted, and an active one is neither.
TxStateMonotone ==
    [][\A t \in DOMAIN transactions \cap DOMAIN transactions' :
          LET old == transactions[t]
              new == transactions'[t]
          IN  /\ Terminal(old) =>
                    /\ new.is_committed = old.is_committed
                    /\ new.is_aborted = old.is_aborted
                    /\ new.is_active = old.is_active
              /\ ~(new.is_committed /\ new.is_aborted)
              /\ new.is_active => ~(new.is_committed \/ new.is_aborted)]_vars

\* a commit was tried on a transaction that a failed commit had left ABORTED in
\* the map, and was refused, while another transaction is COMMITTED
TxStateMonotoneWitness ==
    /\ last.op = "commit" /\ last.was = "ABORTED" /\ last.ret = "false"
    /\ last.tx \in active_transactions_
    /\ \E t \in DOMAIN transactions : transactions[t].is_committed

ReportsAborted == {"false", "TransactionAbortedException"}

\* C6: commit on an already COMMITTED transaction returns success and appends
\* nothing to the log; commit on an ABORTED transaction fails as aborted.
CommitIdempotent ==
    last.op = "commit" =>
        /\ last.was = "COMMITTED" => (last.ret = "true" /\ last.wrote = 0)
        /\ last.was = "ABORTED" => last.ret \in ReportsAborted

\* C7: rollback on an already COMMITTED transaction fails as already committed
\* and leaves it COMMITTED; rollback on an already ABORTED one returns success.
RollbackOnEndedTransaction ==
    last.op = "rollback" =>
        /\ last.was = "COMMITTED" =>
              /\ last.ret \in {"false", "AlreadyCommitted"}
              /\ transactions[last.tx].is_committed
        /\ last.was = "ABORTED" => last.ret = "true"

\* C8: a commit of a transaction the sweeper reaped fails as aborted and appends
\* none of its records to the log.
SweptCommitFailsAborted ==
    (last.op = "commit" /\ last.tx \in swept) =>
        (last.ret \in ReportsAborted /\ last.wrote = 0)


(***************************************************************************)
(* More properties of the transaction manager, checked under Spec.         *)
(***************************************************************************)
\* what a caller sees when a call hands it the I/O error of the log file
ReportsIOError == {"FileSystemException", "IOError"}

\* C24: a commit of an ACTIVE transaction in which a record fails to be
\* written leaves the transaction ABORTED and reports the I/O error to the
\* caller.
CommitFailureAbortsAndReports ==
    (last.op = "commit" /\ last.was = "ACTIVE" /\ last.ret # "true") =>
        /\ TxState(transactions, last.tx) = "ABORTED"
        /\ last.ret \in ReportsIOError

\* C25: records keep the caller's order: a staged list only ever grows by one
\* record at its end, and a commit appends to the log the staged records it
\* wrote, in staging order.
StagedOrderKept ==
    [][/\ \A t \in DOMAIN transactions \cap DOMAIN transactions' :
             LET old == transactions[t].log_entries
                 new == transactions'[t].log_entries
             IN \/ new = old
                \/ /\ Len(new) = Len(old) + 1
                   /\ SubSeq(new, 1, Len(old)) = old
       /\ (last'.op = "commit" /\ wal' # wal)
             => wal' = wal \o SubSeq(transactions[last'.tx].log_entries, 1, last'.wrote)]_vars

\* a commit wrote two staged records that differ, after another transaction's
\* records
StagedOrderKeptWitness ==
    /\ last.op = "commit" /\ last.ret = "true" /\ last.wrote >= 2
    /\ Len(wal) > last.wrote
    /\ wal[Len(wal)] # wal[Len(wal) - 1]

\* C26: every entry of the active-transaction map is in state ACTIVE.
ActiveMapHoldsOnlyActive ==
    \A t \in active_transactions_ : TxState(transactions, t) = "ACTIVE"

\* ------------------------------------------------------------------------
\* Block and inode accounting: the allocators and the superblock's counters,
\* called in any order by the code that owns them
\* ------------------------------------------------------------------------

UsedBlocks == {b \in DOMAIN block_bitmap_ : ~block_bitmap_[b]}

\* what a caller may pass as a block id: every block, and one id past the end
CallerBlockIds == 0..total_blocks_

\* the lists given to deallocate_blocks: two neighbours, the last pair ending
\* past the bitmap
CallerBlockIdLists == {<<a - 1, a>> : a \in CallerBlockIds \ {0}}

NextBlockAccounting ==
    \/ Cardinality(UsedBlocks) < MaxUsedBlocks /\ allocate_block
    \/ \E count \in 0..MaxCount : \E beyond \in BOOLEAN :
          /\ Cardinality(UsedBlocks) + count <= MaxUsedBlocks
          /\ allocate_blocks(count, beyond)
    \/ \E b \in CallerBlockIds : deallocate_block(b)
    \/ \E ids \in CallerBlockIdLists : deallocate_blocks(ids)
    \/ /\ superblock.total_blocks - superblock.free_blocks < MaxUsedBlocks
       /\ SuperBlock_allocate_block
    \/ SuperBlock_deallocate_block
    \/ WallTick

SpecBlockAccounting == Init /\ [][NextBlockAccounting]_vars

\* inode 0 is the invalid inode: the live ones are the others in use
LiveInodes == {i \in DOMAIN free_inodes_ : i # 0 /\ ~free_inodes_[i]}

CallerInodeNums == 0..get_total_inode_count

NextInodeAccounting ==
    \/ allocate_inode
    \/ \E i \in CallerInodeNums : deallocate_inode(i)
    \/ SuperBlock_allocate_inode
    \/ SuperBlock_deallocate_inode
    \/ WallTick

SpecInodeAccounting == Init /\ [][NextInodeAccounting]_vars

\* C9: in every reachable state of a formatted file system the used blocks of
\* the bitmap and the superblock's free_blocks add up to total_blocks.
BlockAccounting ==
    Cardinality(UsedBlocks) + superblock.free_blocks = superblock.total_blocks

\* C10: in every reachable state of a formatted file system the live inodes and
\* the superblock's free_inodes add up to inode_count.
InodeAccounting ==
    Cardinality(LiveInodes) + superblock.free_inodes = superblock.inode_count

\* ------------------------------------------------------------------------
\* The superblock alone: its counters, its time stamps and its image on the
\* device, called in any order
\* ------------------------------------------------------------------------

NextSuperBlock ==
    \/ /\ superblock.total_blocks - superblock.free_blocks < MaxUsedBlocks
       /\ SuperBlock_allocate_block
    \/ SuperBlock_deallocate_block
    \/ SuperBlock_allocate_inode
    \/ SuperBlock_deallocate_inode
    \/ update_mount_time
    \/ \E outcome \in StreamOutcomes : serialize(outcome)
    \/ deserialize
    \/ WallTick

SpecSuperBlock == Init /\ [][NextSuperBlock]_vars

\* C11: the superblock validates in every reachable state: after initialize
\* with a legal geometry and any sequence of counter operations, mount time
\* updates and serialize calls.
SuperBlockAlwaysValid == SuperBlock_is_valid(superblock)

\* ------------------------------------------------------------------------
\* The block allocator alone, and the inode table alone, every public
\* operation called in any order with any argument
\* ------------------------------------------------------------------------

InitBlocks ==
    /\ InitTx
    /\ InitSuperBlock(FormatBlocks)
    /\ InitBlockManager(PoolBlocks)
    /\ InitInodeTable(FormatBlocks \div 4)
    /\ InitFacade
    /\ InitRetry
    /\ InitRest

NextBlocks ==
    \/ allocate_block
    \/ \E count \in 0..MaxCount : \E beyond \in BOOLEAN : allocate_blocks(count, beyond)
    \/ \E b \in CallerBlockIds : deallocate_block(b)
    \/ \E ids \in CallerBlockIdLists : deallocate_blocks(ids)
    \/ \E b \in CallerBlockIds : mark_block_used(b)
    \/ \E b \in CallerBlockIds : mark_block_free(b)
    \/ defragment_blocks

SpecBlocks == InitBlocks /\ [][NextBlocks]_vars

InitInodes ==
    /\ InitTx
    /\ InitSuperBlock(FormatBlocks)
    /\ InitBlockManager(FormatBlocks)
    /\ InitInodeTable(PoolInodes)
    /\ InitFacade
    /\ InitRetry
    /\ InitRest

NextInodes ==
    \/ allocate_inode
    \/ \E i \in CallerInodeNums : deallocate_inode(i)

SpecInodes == InitInodes /\ [][NextInodes]_vars

\* C12: an allocation on an exhausted allocator ends with the out-of-space
\* failure and leaves the allocator's mutex released.
ExhaustedAllocationFailsOutOfSpace ==
    /\ (block_ret.op \in {"allocate_block", "allocate_blocks"} /\ block_ret.status # "ok")
          => (block_ret.status = "InsufficientSpaceException" /\ bitmap_mutex_ = "free")
    /\ (inode_ret.op = "allocate_inode" /\ inode_ret.status # "ok")
          => (inode_ret.status = "InsufficientSpaceException" /\ table_mutex_ = "free")

\* C13: deallocate_block and deallocate_blocks fail with the invalid-block
\* error when an id is 0 or at least total_blocks, and that failed call
\* changes no bit of the bitmap.
DeallocateRejectsInvalidIds ==
    [][(/\ block_ret'.op \in {"deallocate_block", "deallocate_blocks"}
        /\ \E k \in 1..Len(block_ret'.arg) :
              block_ret'.arg[k] = 0 \/ block_ret'.arg[k] >= total_blocks_)
          => (/\ block_ret'.status = "BlockNotFoundException"
              /\ block_bitmap_' = block_bitmap_)]_vars

\* C14: block 0 stays reserved in every reachable state: it is never marked
\* free and no allocation returns it.
BlockZeroReserved ==
    /\ ~block_bitmap_[0]
    /\ \A k \in 1..Len(block_ret.blocks) : block_ret.blocks[k] # 0

\* C15: inodes 0 and 1 stay reserved: whatever in-range inodes were
\* deallocated before, allocate_inode never returns 0 or 1.
ReservedInodesNeverAllocated ==
    \A k \in 1..Len(inode_ret.inodes) : inode_ret.inodes[k] \notin {0, 1}

\* C16: a failing allocate_blocks rolls back every block it marked: the bitmap
\* after the call is the bitmap before it.
FailedAllocateBlocksRollsBack ==
    [][(block_ret'.op = "allocate_blocks" /\ block_ret'.status # "ok")
          => block_bitmap_' = block_bitmap_]_vars

\* a failed allocate_blocks that had a free block to mark (and so to roll
\* back) before it ran out
FailedAllocateBlocksWitness ==
    /\ block_ret.op = "allocate_blocks"
    /\ block_ret.status # "ok"
    /\ get_free_block_count >= 1

\* ------------------------------------------------------------------------
\* Caller threads reading, replacing and extending one file
\* ------------------------------------------------------------------------
NextFileIO ==
    \/ \E t \in Threads : read_file(t, FILE_A)
    \/ \E t \in Threads : \E n \in 0..(MaxFileSize + 1) : write_file(t, FILE_A, Pattern(t, n))
    \/ \E t \in Threads : \E n \in 1..MaxAppend : append_file(t, FILE_A, Pattern(t, n))
    \/ \E t \in Threads : read_file_body(t)
    \/ \E t \in Threads : write_file_body(t)
    \/ \E t \in Threads : append_file_size(t)
    \/ \E t \in Threads : append_file_extend(t)
    \/ \E t \in Threads : unlock_inodes(t)

SpecFileIO == Init /\ [][NextFileIO]_vars

\* C17: write_file(p, data) followed by read_file(p) returns exactly data, for
\* every data up to the maximum file size: a read of a file whose last
\* completed change was a write_file returns the data of that write.
WriteReadRoundTrip ==
    \A t \in Threads :
        (/\ thread[t].op = "read_file"
         /\ thread[t].pc = "unlock"
         /\ thread[t].ret = "ok"
         /\ expected[thread[t].inode].data # << >>)
            => thread[t].buffer = expected[thread[t].inode].data[1]

\* a read returned data that ends inside a block
WriteReadRoundTripWitness ==
    \E t \in Threads :
        /\ thread[t].op = "read_file"
        /\ thread[t].pc = "unlock"
        /\ thread[t].ret = "ok"
        /\ expected[thread[t].inode].data # << >>
        /\ Len(thread[t].buffer) % BlockSize # 0

\* C20: when several threads append to the same file and every call returns
\* success, the file's length is the sum of the appended lengths and its
\* bytes are the multiset union of what was appended to what it held.
NoLostAppends ==
    (\A t \in Threads : thread[t].pc = "idle")
        => \A i \in InodeNumbers :
              inodes_[i].mode = "file"
                 => ByteCounts(read_file_blocks(inodes_[i])) = expected[i].counts

\* appends of two threads have returned and no call is in progress
NoLostAppendsWitness ==
    /\ \A t \in Threads : thread[t].pc = "idle"
    /\ Cardinality(expected[FILE_A].appenders) >= 2

\* ------------------------------------------------------------------------
\* One caller grouping writes of "/a" in explicit transactions
\* ------------------------------------------------------------------------
NextScope ==
    \/ /\ ~PublishPending
       /\ begin_transaction
       /\ UNCHANGED guard
    \/ /\ ~PublishPending
       /\ \E t \in CallerIds :
             add_log_entry(t, StagedWrite(t, Len(transactions[t].log_entries) + 1))
    \/ /\ ~PublishPending
       /\ \E t \in CallerIds : \E f \in 0..MaxEntries : commit_transaction(t, f)
       /\ UNCHANGED guard
    \/ /\ ~PublishPending
       /\ \E t \in CallerIds : rollback_transaction(t)
       /\ UNCHANGED guard
    \/ \E t \in CallerIds : publish_committed(t)

SpecScope == Init /\ [][NextScope]_vars

NextLocks ==
    \/ \E t \in Threads : \E d \in InodeNumbers : create_file(t, d)
    \/ \E t \in Threads : \E d \in InodeNumbers : create_directory(t, d)
    \/ \E t \in Threads : \E i \in InodeNumbers : delete_file(t, i)
    \/ \E t \in Threads : \E i \in InodeNumbers : delete_directory(t, i)
    \/ \E t \in Threads : \E i, d \in InodeNumbers : rename(t, i, d)
    \/ \E t \in Threads : \E i \in InodeNumbers : read_file(t, i)
    \/ \E t \in Threads : \E i \in InodeNumbers : write_file(t, i, Pattern(t, 0))
    \/ \E t \in Threads : lock_inodes(t)
    \/ \E t \in Threads : create_body(t)
    \/ \E t \in Threads : delete_body(t)
    \/ \E t \in Threads : rename_body(t)
    \/ \E t \in Threads : read_file_body(t)
    \/ \E t \in Threads : write_file_body(t)
    \/ \E t \in Threads : unlock_inodes(t)

SpecLocks == Init /\ [][NextLocks]_vars

\* thread t waits for an inode lock that thread u holds
WaitsFor(t, u) ==
    /\ t # u
    /\ thread[t].pc = "lock"
    /\ LET next == thread[t].plan[thread[t].got + 1]
           m == get_inode_mutex(next.inode)
       IN \/ m.writer = u
          \/ next.mode = "w" /\ u \in m.readers

\* C19: no set of concurrently running delete, rename, create, read and write
\* operations reaches a state where each waits for an inode lock held by
\* another of the set.
InodeLockingDeadlockFree ==
    \A waiting \in SUBSET Threads :
        waiting # {} => \E t \in waiting : \A u \in waiting : ~WaitsFor(t, u)

\* a thread holds the first of its two locks, the higher-numbered one being the
\* parent it named first, and waits for the second, which another thread with
\* two locks to take holds
InodeLockingWitness ==
    \E t, u \in Threads :
        /\ WaitsFor(t, u)
        /\ thread[t].got = 1
        /\ Len(thread[u].plan) = 2
        /\ thread[t].op \in {"delete_file", "delete_directory"}
        /\ thread[t].other > thread[t].inode

\* C21: allocate_block returning b leaves b not free and one block fewer free;
\* deallocate_block(b) called next leaves b free and the free count back at
\* its value before the allocation.
AllocateDeallocateRoundTrip ==
    [][\A b \in DOMAIN block_bitmap_ :
          /\ (/\ block_ret'.op = "allocate_block" /\ block_ret'.status = "ok"
              /\ block_ret'.blocks = <<b>>)
                => (/\ ~(is_block_free(b))'
                    /\ get_free_block_count' = get_free_block_count - 1)
          /\ (/\ block_ret.op = "allocate_block" /\ block_ret.status = "ok"
              /\ block_ret.blocks = <<b>>
              /\ block_ret'.op = "deallocate_block"
              /\ block_ret'.arg = <<b>>)
                => (/\ (is_block_free(b))'
                    /\ get_free_block_count' = get_free_block_count + 1)]_vars

\* the block the last allocation took (the hint stands just past it) was given
\* back by deallocate_block, with other blocks in use
AllocateDeallocateWitness ==
    /\ block_ret.op = "deallocate_block"
    /\ block_ret.status = "ok"
    /\ block_ret.arg # <<0>>
    /\ next_free_block_ = (block_ret.arg[1] + 1) % total_blocks_
    /\ is_block_free(block_ret.arg[1])
    /\ Cardinality(UsedBlocks) >= 2

\* ------------------------------------------------------------------------
\* The log file over process lifetimes: transactions committed, commits cut
\* short, records damaged on the medium, and recovery run at any moment
\* ------------------------------------------------------------------------
NextRecovery ==
    \/ /\ begin_transaction
       /\ UNCHANGED guard
    \/ \E t \in CallerIds :
          add_log_entry(t, CallerEntry(t, Len(transactions[t].log_entries) + 1))
    \/ /\ \E t \in CallerIds : \E f \in 0..MaxEntries : commit_transaction(t, f)
       /\ UNCHANGED guard
    \/ recover
    \/ /\ Cardinality({j \in 1..Len(wal) : ~is_valid(wal[j])}) < MaxDamaged
       /\ \E i \in 1..(MaxTx * MaxEntries) : CorruptRecord(i)
    \/ \E t \in 0..MaxTx : \E w \in 0..MaxEntries : Crash(t, w)

SpecRecovery == Init /\ [][NextRecovery]_vars

AllocateBlockFirstFreeFromHint ==
    [][\A b \in DOMAIN block_bitmap_ :
          (/\ block_ret'.op = "allocate_block" /\ block_ret'.status = "ok"
           /\ block_ret'.blocks = <<b>>)
             => (/\ block_bitmap_[b]
                 /\ \A k \in 0..(((b - next_free_block_) % total_blocks_) - 1) :
                       ~block_bitmap_[(next_free_block_ + k) % total_blocks_]
                 /\ block_bitmap_' = [block_bitmap_ EXCEPT ![b] = FALSE]
                 /\ next_free_block_' = (b + 1) % total_blocks_
                 /\ next_free_block_' \in 0..(total_blocks_ - 1))]_vars

\* allocate_block returned the last block, so the hint wrapped to 0, while a
\* block below the one returned is free
AllocateBlockWitness ==
    /\ block_ret.op = "allocate_block" /\ block_ret.status = "ok"
    /\ block_ret.blocks = <<total_blocks_ - 1>>
    /\ next_free_block_ = 0
    /\ \E c \in 1..(total_blocks_ - 2) : block_bitmap_[c]

\* C28: allocate_blocks(n), n >= 1, called with at least n blocks free
\* succeeds and returns n distinct blocks that were all free before the call.
AllocateBlocksSucceedsWithSpace ==
    [][\A n \in 1..MaxCount :
          (/\ block_ret'.op = "allocate_blocks"
           /\ block_ret'.arg = <<n>>
           /\ get_free_block_count >= n)
             => (/\ block_ret'.status = "ok"
                 /\ Len(block_ret'.blocks) = n
                 /\ \A j, k \in 1..n :
                       j # k => block_ret'.blocks[j] # block_ret'.blocks[k]
                 /\ \A k \in 1..n : block_bitmap_[block_ret'.blocks[k]])]_vars

\* ------------------------------------------------------------------------
\* Caller threads running operations through one RetryHandler
\* ------------------------------------------------------------------------
\* the wrapped function returns ("ok") or throws an error of some class
NextRetry ==
    \/ \E t \in Threads : execute_with_retry(t)
    \/ \E t \in Threads : next_attempt(t)
    \/ \E t \in Threads : \E outcome \in {"ok"} \cup ErrorTypes : invoke_func(t, outcome)
    \/ \E t \in Threads : update_circuit_breaker_count(t)
    \/ \E t \in Threads : update_circuit_breaker_state(t)
    \/ reset_circuit_breaker

SpecRetry == Init /\ [][NextRetry]_vars

\* C29: a failure that brings the consecutive failures to the threshold leaves
\* the circuit OPEN, and an attempt of execute_with_retry made while the
\* circuit is OPEN fails with "Circuit breaker is open" without calling the
\* wrapped function.
CircuitBreakerTrips ==
    [][\A t \in Threads :
          /\ (/\ caller[t].pc = "state"
              /\ caller[t].outcome # "ok"
              /\ caller[t].failures >= circuit_breaker_failure_threshold
              /\ caller'[t].pc # "state")
                => circuit_state_' = "OPEN"
          /\ (/\ caller[t].pc \in {"idle", "sleep"}
              /\ caller'[t] # caller[t]
              /\ circuit_state_ = "OPEN")
                => (/\ caller'[t].pc = "idle"
                    /\ caller'[t].ret = "Circuit breaker is open"
                    /\ ~caller'[t].invoked)]_vars

\* enough failures in a row opened the circuit and a later attempt failed
\* fast
CircuitBreakerWitness ==
    /\ circuit_state_ = "OPEN"
    /\ consecutive_failures_ >= circuit_breaker_failure_threshold
    /\ \E t \in Threads : caller[t].ret = "Circuit breaker is open"


\* ------------------------------------------------------------------------
\* Validation of a superblock image read from a device: the image is any
\* struct whose fields lie on either side of each limit is_valid looks at
\* ------------------------------------------------------------------------

\* field values of the images: the legal ones and ones beyond each limit
ImageFields ==
    [magic_number : {MAGIC_NUMBER, MAGIC_NUMBER \ {0}},
     block_size : {0, 256, 512, DEFAULT_BLOCK_SIZE, DEFAULT_BLOCK_SIZE + 1, 65536, 131072},
     total_blocks : {9, FormatBlocks},
     free_blocks : {FormatBlocks - 1, FormatBlocks + 1},
     inode_count : {0, FormatBlocks \div 4, FormatBlocks + 1},
     free_inodes : {(FormatBlocks \div 4) - 1, FormatBlocks + 2},
     root_inode : {0, 1, FormatBlocks \div 4},
     version : {1},
     last_mount_time : {0},
     last_write_time : {0}]

\* an image whose stored checksum is the right one, or is off by one bit
Images ==
    {[f \in DOMAIN sb \cup {"checksum"} |->
         IF f = "checksum" THEN SymDiff(calculate_checksum(sb), flip) ELSE sb[f]] :
       sb \in ImageFields, flip \in {{}, {0}}}

InitValidate ==
    /\ InitTx
    /\ wall_clock = 0
    /\ superblock = initialize(FormatBlocks, DEFAULT_BLOCK_SIZE, 0)
    /\ superblock_ret = SuperCall("initialize", "true")
    /\ superblock_file \in {<<image>> : image \in Images}
    /\ InitBlockManager(FormatBlocks)
    /\ InitInodeTable(FormatBlocks \div 4)
    /\ InitFacade
    /\ InitRetry
    /\ InitRest

NextValidate == deserialize

SpecValidate == InitValidate /\ [][NextValidate]_vars

\* C30: an image with any of these defects is refused: a magic number other
\* than the constant, a block size that is not a power of two within
\* [512, 65536], fewer than 10 blocks, more inodes than blocks, more free
\* blocks than blocks, more free inodes than inodes, a root inode outside
\* [1, inode_count), a stored checksum that does not match.
ValidateRejectsEveryDefect ==
    LET sb == superblock
    IN (/\ superblock_ret.op = "deserialize"
        /\ \/ sb.magic_number # MAGIC_NUMBER
           \/ ~(IsPowerOfTwo(sb.block_size) /\ sb.block_size >= 512
                                            /\ sb.block_size <= 65536)
           \/ sb.total_blocks < 10
           \/ sb.inode_count > sb.total_blocks
           \/ sb.free_blocks > sb.total_blocks
           \/ sb.free_inodes > sb.inode_count
           \/ ~(sb.root_inode >= 1 /\ sb.root_inode < sb.inode_count)
           \/ sb.checksum # calculate_checksum(sb))
          => superblock_ret.ret # "true"

\* ------------------------------------------------------------------------
\* Formatting: initialize called with any geometry, on a fresh superblock or
\* on one already in use
\* ------------------------------------------------------------------------

\* the geometries given to initialize: around the smallest legal device,
\* around 64 blocks (a quarter of which is 16) and a large one
FormatGeometries == {10, FormatBlocks, 63, 64, 65, 100 * FormatBlocks}

SuperBlock_initialize(total_blocks, block_size) ==
    /\ superblock' = initialize(total_blocks, block_size, wall_clock)
    /\ superblock_ret' = SuperCall("initialize", "true")
    /\ UNCHANGED <<txVars, callVars, poolVars, guard, blockVars, inodeVars, wall_clock, facadeVars, retryVars, superblock_file>>

NextFormat ==
    \/ \E total_blocks \in FormatGeometries :
          \E block_size \in {512, DEFAULT_BLOCK_SIZE} :
             SuperBlock_initialize(total_blocks, block_size)
    \/ /\ superblock.total_blocks - superblock.free_blocks <= MaxUsedBlocks
       /\ SuperBlock_allocate_block
    \/ /\ superblock.inode_count - superblock.free_inodes <= MaxUsedBlocks
       /\ SuperBlock_allocate_inode
    \/ WallTick

SpecFormat == Init /\ [][NextFormat]_vars

\* C31: initialize(total_blocks, block_size) with total_blocks >= 10 leaves
\* inode_count at the larger of total_blocks / 4 and 16, free_blocks at
\* total_blocks - 1 and free_inodes at inode_count - 1.
InitializeDerivesCounts ==
    (superblock_ret.op = "initialize" /\ superblock.total_blocks >= 10)
      => (/\ superblock.inode_count =
                IF superblock.total_blocks \div 4 >= 16
                THEN superblock.total_blocks \div 4 ELSE 16
          /\ superblock.free_blocks = superblock.total_blocks - 1
          /\ superblock.free_inodes = superblock.inode_count - 1)

\* C33: a successful allocate_inode returns a free positive index, the first
\* one met scanning upward from the hint and then from index 1 up to the
\* hint; and allocate_inode succeeds whenever some positive index is free.
AllocateInodeLowestFreePositive ==
    [][inode_ret'.op = "allocate_inode" =>
          LET free == {j \in DOMAIN free_inodes_ : j >= 1 /\ free_inodes_[j]}
          IN /\ free # {} => inode_ret'.status = "ok"
             /\ \A i \in DOMAIN free_inodes_ :
                   (inode_ret'.status = "ok" /\ inode_ret'.inodes = <<i>>)
                     => (/\ i \in free
                         /\ \A j \in free :
                               IF i >= next_free_inode_
                               THEN j < next_free_inode_ \/ j >= i
                               ELSE j < next_free_inode_ /\ j >= i)]_vars

\* ------------------------------------------------------------------------
\* The inode table with lookups between the allocations and releases
\* ------------------------------------------------------------------------

\* a caller asks for the inode: it gets the pointer or the exception
InodeTable_get_inode(inode_num) ==
    /\ inode_ret' = InodeCall("get_inode", <<inode_num>>,
                               get_inode(inode_num).status, get_inode(inode_num).inodes)
    /\ UNCHANGED <<free_inodes_, next_free_inode_, table_mutex_>>
    /\ UNCHANGED <<txVars, callVars, poolVars, guard, blockVars, superVars, wall_clock, facadeVars, retryVars>>

NextInodeLookup ==
    \/ allocate_inode
    \/ \E i \in CallerInodeNums : deallocate_inode(i)
    \/ \E i \in CallerInodeNums : InodeTable_get_inode(i)

SpecInodeLookup == InitInodes /\ [][NextInodeLookup]_vars

\* C34: get_inode(n) ends with InodeNotFoundException whenever n is out of
\* range or free, so from deallocate_inode(n) until n is allocated again every
\* get_inode(n) fails.
GetInodeFailsOnFreeOrOutOfRange ==
    inode_ret.op = "get_inode" =>
        LET n == inode_ret.arg[1]
        IN (n >= get_total_inode_count \/ free_inodes_[n])
              => (inode_ret.status = "InodeNotFoundException" /\ inode_ret.inodes = << >>)

\* inode 2 was handed out, released, and then looked up
GetInodeWitness ==
    /\ inode_ret.op = "get_inode"
    /\ inode_ret.arg = <<2>>
    /\ inode_ret.status = "InodeNotFoundException"
    /\ free_inodes_[2]
    /\ next_free_inode_ = 3

\* ------------------------------------------------------------------------
\* The block allocator of a formatted device (total_blocks >= 10), filled up
\* and compacted: the calls are those of NextBlocks, with the ids a caller
\* names kept to the two ends of the bitmap
\* ------------------------------------------------------------------------

EndBlockIds == {1, total_blocks_ - 1, total_blocks_}

NextHint ==
    \/ allocate_block
    \/ \E count \in 0..MaxCount : \E beyond \in BOOLEAN : allocate_blocks(count, beyond)
    \/ \E b \in EndBlockIds : deallocate_block(b)
    \/ deallocate_blocks(<<1, 2>>)
    \/ \E b \in EndBlockIds : mark_block_used(b)
    \/ \E b \in EndBlockIds : mark_block_free(b)
    \/ defragment_blocks

SpecHint == Init /\ [][NextHint]_vars

\* C38: the hint of the block allocator is an index of the bitmap in every
\* reachable state: next_free_block_ < total_blocks.
HintWithinBitmap == total_blocks_ >= 10 => next_free_block_ < total_blocks_

\* ------------------------------------------------------------------------
\* The RetryHandler left to itself: callers keep calling, time passes, and
\* nobody calls reset_circuit_breaker
\* ------------------------------------------------------------------------

\* a step of thread t inside execute_with_retry, or its next call
CallerStep(t) ==
    \/ execute_with_retry(t)
    \/ next_attempt(t)
    \/ \E outcome \in {"ok"} \cup ErrorTypes : invoke_func(t, outcome)
    \/ update_circuit_breaker_count(t)
    \/ update_circuit_breaker_state(t)

NextRetryAuto ==
    \/ \E t \in Threads : CallerStep(t)
    \/ SteadyTick

\* every caller goes on and the clock advances
SpecRetryAuto ==
    /\ Init
    /\ [][NextRetryAuto]_vars
    /\ \A t \in Threads : WF_vars(CallerStep(t))
    /\ WF_vars(SteadyTick)

\* C36: an OPEN circuit recovers by itself: once circuit_breaker_timeout has
\* passed since the last failure, a later execute_with_retry call moves it to
\* HALF_OPEN.
OpenCircuitRecovers ==
    (circuit_state_ = "OPEN" /\ should_reset_circuit_breaker)
        ~> (circuit_state_ = "HALF_OPEN")

\* ------------------------------------------------------------------------
\* TransactionGuard (transaction_manager.cpp): one guard at a time over the
\* manager, its scope left at any moment
\* ------------------------------------------------------------------------

\* the constructor begins a transaction and keeps its id
TransactionGuard_construct ==
    /\ guard.state # "alive"
    /\ begin_transaction
    /\ guard' = TransactionGuard("alive", next_transaction_id_, FALSE)

\* commit(): committed_ is set once commit_transaction has returned, whatever
\* it returned; an exception leaves commit() before the assignment
TransactionGuard_commit(fail_at) ==
    /\ guard.state = "alive"
    /\ ~guard.committed_
    /\ commit_transaction(guard.transaction_id_, fail_at)
    /\ guard' = [guard EXCEPT !.committed_ = last'.ret # "TransactionNotFoundException"]

TransactionGuard_abort ==
    /\ guard.state = "alive"
    /\ ~guard.committed_
    /\ rollback_transaction(guard.transaction_id_)
    /\ guard' = [guard EXCEPT !.committed_ = last'.ret # "TransactionNotFoundException"]

\* the destructor rolls back unless committed_ is set, and swallows exceptions
TransactionGuard_destroy ==
    /\ guard.state = "alive"
    /\ guard' = [guard EXCEPT !.state = "destroyed"]
    /\ IF guard.committed_
       THEN UNCHANGED <<txVars, notTxVars>>
       ELSE rollback_transaction(guard.transaction_id_)

NextGuard ==
    \/ TransactionGuard_construct
    \/ /\ guard.state = "alive"
       /\ add_log_entry(guard.transaction_id_,
                        CallerEntry(guard.transaction_id_,
                                    Len(transactions[guard.transaction_id_].log_entries) + 1))
    \/ \E f \in 0..MaxEntries : TransactionGuard_commit(f)
    \/ TransactionGuard_abort
    \/ TransactionGuard_destroy
    \/ cleanup_expired_transactions
    \/ Tick

SpecGuard == Init /\ [][NextGuard]_vars

\* C39: a destroyed TransactionGuard has left no transaction behind: its
\* transaction id is not in the active-transaction map, whether commit()
\* succeeded, commit() failed, abort() was called or nothing was called.
GuardNeverLeaks ==
    guard.state = "destroyed" => guard.transaction_id_ \notin active_transactions_

\* ------------------------------------------------------------------------
\* commit_transaction record by record, called by several threads at once:
\* std::lock_guard on transaction_mutex_ for the whole body, one
\* write_log_entry per staged record
\* ------------------------------------------------------------------------

\* what no commit step touches besides the manager and the committers
notCommitVars ==
    <<blockVars, inodeVars, superVars, wall_clock, facadeVars, retryVars, poolVars,
      guard, sb_caller, alloc_caller>>

\* a lock that is never held
CanLockTransactionMutex_unlocked(t) == TRUE

CanLockTransactionMutex(t) == transaction_mutex_ = 0

\* thread t calls commit_transaction(tx_id) and reaches the lock_guard
commit_transaction_call(t, tx_id) ==
    /\ committer[t].pc = "idle"
    /\ committer' = [committer EXCEPT ![t] = Committer("waiting", tx_id, 0)]
    /\ UNCHANGED <<txVars, transaction_mutex_, notCommitVars>>

\* it gets the mutex, looks the transaction up and tests its flags
commit_transaction_lock(t) ==
    /\ committer[t].pc = "waiting"
    /\ CanLockTransactionMutex(t)
    /\ LET tx_id == committer[t].tx
       IN IF tx_id \notin active_transactions_
          THEN /\ last' = Call("commit", tx_id, "TransactionNotFoundException", 0)
               /\ committer' = [committer EXCEPT ![t] = Committer("idle", 0, 0)]
               /\ UNCHANGED transaction_mutex_
          ELSE IF CommitRefusesAborted(tx_id)
          THEN /\ last' = Call("commit", tx_id, "false", 0)
               /\ committer' = [committer EXCEPT ![t] = Committer("idle", 0, 0)]
               /\ UNCHANGED transaction_mutex_
          ELSE IF transactions[tx_id].is_committed
          THEN /\ last' = Call("commit", tx_id, "true", 0)
               /\ committer' = [committer EXCEPT ![t] = Committer("idle", 0, 0)]
               /\ UNCHANGED transaction_mutex_
          ELSE /\ transaction_mutex_' = t
               /\ committer' = [committer EXCEPT ![t].pc = "writing"]
               /\ UNCHANGED last
    /\ replayed' = << >>
    /\ UNCHANGED <<next_transaction_id_, transactions, active_transactions_, wal,
                   created, begun, swept, incomplete, notCommitVars>>

\* one turn of the loop: write_log_entry appends the next staged record
commit_transaction_write(t) ==
    /\ committer[t].pc = "writing"
    /\ committer[t].written < Len(CommitRecords(committer[t].tx))
    /\ wal' = Append(wal, CommitRecords(committer[t].tx)[committer[t].written + 1])
    /\ committer' = [committer EXCEPT ![t].written = @ + 1]
    /\ UNCHANGED <<next_transaction_id_, transactions, active_transactions_,
                   created, begun, swept, incomplete, last, replayed,
                   transaction_mutex_, notCommitVars>>

\* after the loop: the flags, the erase, and the lock_guard's release
commit_transaction_return(t) ==
    /\ committer[t].pc = "writing"
    /\ committer[t].written = Len(CommitRecords(committer[t].tx))
    /\ LET tx_id == committer[t].tx
       IN /\ transactions' = [transactions EXCEPT ![tx_id] =
                                 Destroyed([@ EXCEPT !.is_committed = TRUE,
                                                     !.is_active = FALSE])]
          /\ active_transactions_' = active_transactions_ \ {tx_id}
          /\ last' = Call("commit", tx_id, "true", committer[t].written)
    /\ transaction_mutex_' = IF transaction_mutex_ = t THEN 0 ELSE transaction_mutex_
    /\ committer' = [committer EXCEPT ![t] = Committer("idle", 0, 0)]
    /\ replayed' = << >>
    /\ UNCHANGED <<next_transaction_id_, wal, created, begun, swept, incomplete,
                   notCommitVars>>

NextWal ==
    \/ /\ transaction_mutex_ = 0
       /\ begin_transaction
       /\ UNCHANGED guard
    \/ /\ transaction_mutex_ = 0
       /\ \E t \in CallerIds :
             add_log_entry(t, CallerEntry(t, Len(transactions[t].log_entries) + 1))
    \/ \E t \in Threads : \E tx_id \in CallerIds : commit_transaction_call(t, tx_id)
    \/ \E t \in Threads : commit_transaction_lock(t)
    \/ \E t \in Threads : commit_transaction_write(t)
    \/ \E t \in Threads : commit_transaction_return(t)

SpecWal == Init /\ [][NextWal]_vars

\* C40: the records of one transaction lie in the WAL as one block: no record
\* of another transaction stands between two of them.
WalAppendsSerialized ==
    \A i \in 1..Len(wal) : \A k \in i..Len(wal) :
        wal[i].transaction_id = wal[k].transaction_id
          => \A j \in i..k : wal[j].transaction_id = wal[i].transaction_id

\* one thread is partway through its commit while another, committing a
\* different transaction with staged records, waits for the mutex
WalAppendsWitness ==
    \E t \in Threads : \E u \in Threads :
        /\ committer[t].pc = "writing"
        /\ committer[t].written >= 1
        /\ committer[t].written < Len(CommitRecords(committer[t].tx))
        /\ committer[u].pc = "waiting"
        /\ committer[u].tx # committer[t].tx
        /\ committer[u].tx \in active_transactions_
        /\ transactions[committer[u].tx].log_entries # << >>

\* ------------------------------------------------------------------------
\* SuperBlock::allocate_block and allocate_inode called by several threads at
\* once.  The struct has no mutex and its counters are plain uint32_t, so the
\* calls race: the test, the read and the write of free_blocks--, and the
\* read and the write of update_checksum are steps other threads come between
\* ------------------------------------------------------------------------

notSuperCallVars ==
    <<txVars, blockVars, inodeVars, wall_clock, facadeVars, retryVars, poolVars, guard,
      alloc_caller, transaction_mutex_, committer, superblock_ret, superblock_file>>

\* the counter an operation moves
CounterOf(op) == IF op = "allocate_block" THEN "free_blocks" ELSE "free_inodes"

\* the counter as format left it
FormattedCounter(op) == initialize(FormatBlocks, DEFAULT_BLOCK_SIZE, 0)[CounterOf(op)]

\* a thread calls op; no more threads call it than the counter has units, so
\* the value a thread reads is never 0 and the decrement never wraps
SuperBlock_call(t, op) ==
    /\ sb_caller[t].pc = "idle"
    /\ Cardinality({u \in Threads : sb_caller[u].op = op}) < FormattedCounter(op)
    /\ sb_caller' = [sb_caller EXCEPT ![t] = SuperCaller("test", op, 0, {}, "none")]
    /\ UNCHANGED <<superblock, notSuperCallVars>>

\* if (free_blocks == 0) return false;
SuperBlock_test(t) ==
    /\ sb_caller[t].pc = "test"
    /\ IF superblock[CounterOf(sb_caller[t].op)] = 0
       THEN sb_caller' = [sb_caller EXCEPT ![t].pc = "done", ![t].ret = "false"]
       ELSE sb_caller' = [sb_caller EXCEPT ![t].pc = "read"]
    /\ UNCHANGED <<superblock, notSuperCallVars>>

\* free_blocks--, the read
SuperBlock_read(t) ==
    /\ sb_caller[t].pc = "read"
    /\ sb_caller' = [sb_caller EXCEPT ![t].pc = "write",
                                      ![t].reg = superblock[CounterOf(sb_caller[t].op)]]
    /\ UNCHANGED <<superblock, notSuperCallVars>>

\* free_blocks--, the write, and last_write_time
SuperBlock_write(t) ==
    /\ sb_caller[t].pc = "write"
    /\ superblock' = [superblock EXCEPT
                         ![CounterOf(sb_caller[t].op)] =
                             sb_caller[t].reg - 1,
                         !.last_write_time = wall_clock]
    /\ sb_caller' = [sb_caller EXCEPT ![t].pc = "checksum"]
    /\ UNCHANGED notSuperCallVars

\* update_checksum: calculate_checksum over a copy of the struct
SuperBlock_checksum(t) ==
    /\ sb_caller[t].pc = "checksum"
    /\ sb_caller' = [sb_caller EXCEPT ![t].pc = "store",
                                      ![t].sum = calculate_checksum(superblock)]
    /\ UNCHANGED <<superblock, notSuperCallVars>>

\* update_checksum: the result is stored; return true
SuperBlock_store(t) ==
    /\ sb_caller[t].pc = "store"
    /\ superblock' = [superblock EXCEPT !.checksum = sb_caller[t].sum]
    /\ sb_caller' = [sb_caller EXCEPT ![t].pc = "done", ![t].ret = "true"]
    /\ UNCHANGED notSuperCallVars

NextSuperCalls ==
    \/ \E t \in Threads : \E op \in {"allocate_block", "allocate_inode"} :
          SuperBlock_call(t, op)
    \/ \E t \in Threads : SuperBlock_test(t)
    \/ \E t \in Threads : SuperBlock_read(t)
    \/ \E t \in Threads : SuperBlock_write(t)
    \/ \E t \in Threads : SuperBlock_checksum(t)
    \/ \E t \in Threads : SuperBlock_store(t)

SpecSuperCalls == Init /\ [][NextSuperCalls]_vars

\* C32: when k threads have each called allocate_block() (or allocate_inode())
\* once, at the same time, on a counter that stood at c >= k, every call
\* returned true, the counter is c - k and the stored checksum is the
\* checksum of the struct.
ReserveIsAtomic ==
    (\A t \in Threads : sb_caller[t].pc = "done") =>
        \A op \in {"allocate_block", "allocate_inode"} :
            LET callers == {t \in Threads : sb_caller[t].op = op}
                c == FormattedCounter(op)
            IN c >= Cardinality(callers)
                 => (/\ \A t \in callers : sb_caller[t].ret = "true"
                     /\ superblock[CounterOf(op)] = c - Cardinality(callers)
                     /\ superblock.checksum = calculate_checksum(superblock))

\* ------------------------------------------------------------------------
\* Threads inside the allocators at once.  A mutating operation is the steps
\* lock, write, unlock (the lock_guard's scope); is_block_free, get_inode and
\* is_inode_free are one read each, made without any lock
\* ------------------------------------------------------------------------

notAllocCallVars ==
    <<txVars, superVars, wall_clock, facadeVars, retryVars, poolVars, guard,
      sb_caller, transaction_mutex_, committer,
      next_free_block_, block_ret, next_free_inode_, inode_ret>>

\* block ids and inode numbers the racing callers pass
RacedBlockIds == {1, 2}

RacedInodeNums == {1, 2}

\* positions of a thread between the lock and the unlock of a mutating operation
InsideMutation == {"locked", "written"}

\* mark_block_used / mark_block_free: std::lock_guard lock(bitmap_mutex_)
mark_block_lock(t, op, block_id) ==
    /\ alloc_caller[t].pc = "idle"
    /\ block_id < total_blocks_
    /\ bitmap_mutex_ = "free"
    /\ bitmap_mutex_' = "held"
    /\ alloc_caller' = [alloc_caller EXCEPT ![t] = AllocCaller("locked", op, block_id, "none")]
    /\ UNCHANGED <<block_bitmap_, free_inodes_, table_mutex_, notAllocCallVars>>

\* block_bitmap_[block_id] = false (or true)
mark_block_write(t) ==
    /\ alloc_caller[t].pc = "locked"
    /\ alloc_caller[t].op \in {"mark_block_used", "mark_block_free"}
    /\ block_bitmap_' = [block_bitmap_ EXCEPT
                            ![alloc_caller[t].arg] = (alloc_caller[t].op = "mark_block_free")]
    /\ alloc_caller' = [alloc_caller EXCEPT ![t].pc = "written"]
    /\ UNCHANGED <<bitmap_mutex_, free_inodes_, table_mutex_, notAllocCallVars>>

\* the lock_guard goes out of scope
mark_block_unlock(t) ==
    /\ alloc_caller[t].pc = "written"
    /\ alloc_caller[t].op \in {"mark_block_used", "mark_block_free"}
    /\ bitmap_mutex_' = "free"
    /\ alloc_caller' = [alloc_caller EXCEPT ![t].pc = "idle", ![t].ret = "ok"]
    /\ UNCHANGED <<block_bitmap_, free_inodes_, table_mutex_, notAllocCallVars>>

\* is_block_free: the read of block_bitmap_, bitmap_mutex_ not taken
is_block_free_call(t, block_id) ==
    /\ alloc_caller[t].pc = "idle"
    /\ alloc_caller' = [alloc_caller EXCEPT ![t] =
                           AllocCaller("read", "is_block_free", block_id,
                                       IF is_block_free(block_id) THEN "true" ELSE "false")]
    /\ UNCHANGED <<block_bitmap_, bitmap_mutex_, free_inodes_, table_mutex_, notAllocCallVars>>

\* deallocate_inode: std::lock_guard lock(table_mutex_)
deallocate_inode_lock(t, inode_num) ==
    /\ alloc_caller[t].pc = "idle"
    /\ inode_num < get_total_inode_count
    /\ table_mutex_ = "free"
    /\ table_mutex_' = "held"
    /\ alloc_caller' = [alloc_caller EXCEPT ![t] =
                           AllocCaller("locked", "deallocate_inode", inode_num, "none")]
    /\ UNCHANGED <<free_inodes_, block_bitmap_, bitmap_mutex_, notAllocCallVars>>

\* free_inodes_[inode_num] = true unless it is already
deallocate_inode_write(t) ==
    /\ alloc_caller[t].pc = "locked"
    /\ alloc_caller[t].op = "deallocate_inode"
    /\ free_inodes_' = [free_inodes_ EXCEPT ![alloc_caller[t].arg] = TRUE]
    /\ alloc_caller' = [alloc_caller EXCEPT ![t].pc = "written"]
    /\ UNCHANGED <<table_mutex_, block_bitmap_, bitmap_mutex_, notAllocCallVars>>

deallocate_inode_unlock(t) ==
    /\ alloc_caller[t].pc = "written"
    /\ alloc_caller[t].op = "deallocate_inode"
    /\ table_mutex_' = "free"
    /\ alloc_caller' = [alloc_caller EXCEPT ![t].pc = "idle", ![t].ret = "ok"]
    /\ UNCHANGED <<free_inodes_, block_bitmap_, bitmap_mutex_, notAllocCallVars>>

\* get_inode: the read of free_inodes_, table_mutex_ not taken
get_inode_call(t, inode_num) ==
    /\ alloc_caller[t].pc = "idle"
    /\ alloc_caller' = [alloc_caller EXCEPT ![t] =
                           AllocCaller("read", "get_inode", inode_num,
                                       get_inode(inode_num).status)]
    /\ UNCHANGED <<free_inodes_, table_mutex_, block_bitmap_, bitmap_mutex_, notAllocCallVars>>

\* is_inode_free: the read of free_inodes_, table_mutex_ not taken
is_inode_free_call(t, inode_num) ==
    /\ alloc_caller[t].pc = "idle"
    /\ alloc_caller' = [alloc_caller EXCEPT ![t] =
                           AllocCaller("read", "is_inode_free", inode_num,
                                       IF is_inode_free(inode_num) THEN "true" ELSE "false")]
    /\ UNCHANGED <<free_inodes_, table_mutex_, block_bitmap_, bitmap_mutex_, notAllocCallVars>>

\* a lookup returns to its caller
lookup_return(t) ==
    /\ alloc_caller[t].pc = "read"
    /\ alloc_caller' = [alloc_caller EXCEPT ![t].pc = "idle"]
    /\ UNCHANGED <<free_inodes_, table_mutex_, block_bitmap_, bitmap_mutex_, notAllocCallVars>>

NextAllocCalls ==
    \/ \E t \in Threads : \E op \in {"mark_block_used", "mark_block_free"} :
          \E b \in RacedBlockIds : mark_block_lock(t, op, b)
    \/ \E t \in Threads : mark_block_write(t)
    \/ \E t \in Threads : mark_block_unlock(t)
    \/ \E t \in Threads : \E b \in RacedBlockIds : is_block_free_call(t, b)
    \/ \E t \in Threads : \E i \in RacedInodeNums : deallocate_inode_lock(t, i)
    \/ \E t \in Threads : deallocate_inode_write(t)
    \/ \E t \in Threads : deallocate_inode_unlock(t)
    \/ \E t \in Threads : \E i \in RacedInodeNums : get_inode_call(t, i)
    \/ \E t \in Threads : \E i \in RacedInodeNums : is_inode_free_call(t, i)
    \/ \E t \in Threads : lookup_return(t)

SpecAllocCalls == Init /\ [][NextAllocCalls]_vars

\* the allocator an operation belongs to
OnBlocks(op) == op \in {"mark_block_used", "mark_block_free", "is_block_free"}

\* C35: no operation of an allocator, the lookups is_block_free, is_inode_free
\* and get_inode included, reads or writes its bitmap while another thread is
\* between the lock and the unlock of a mutating operation of that allocator.
NoAccessDuringMutation ==
    [][\A t \in Threads :
          (alloc_caller'[t] # alloc_caller[t] /\ alloc_caller'[t].pc \in {"read", "written"})
              => \A u \in Threads \ {t} :
                    ~(/\ alloc_caller[u].pc \in InsideMutation
                      /\ OnBlocks(alloc_caller[u].op) = OnBlocks(alloc_caller'[t].op))]_vars

\* ------------------------------------------------------------------------
\* ThreadPool (src/utils/thread_pool.cpp).  Every section of code under
\* queue_mutex_ is one step.  condition_.wait(lock, pred) tests pred under the
\* mutex and, when it is false, releases the mutex and blocks in one step; a
\* notified thread tests pred again.  The workers and the thread in
\* wait_for_all_tasks block on the same condition_
\* ------------------------------------------------------------------------

notPoolVars ==
    <<txVars, blockVars, inodeVars, superVars, wall_clock, facadeVars, retryVars,
      callVars, guard>>

workers_(pool) == {w \in Workers : pool[w] # "absent"}

\* threads adjust_thread_count adds: min(queue_size, max_threads_ - current, 2)
\* when there is work and active_threads >= current_threads * 0.8
ThreadsToAdd(pool, queue_size, active_threads) ==
    LET current_threads == Cardinality(workers_(pool))
        room == max_threads_ - current_threads
        least == IF queue_size < room THEN queue_size ELSE room
    IN IF queue_size > 0 /\ current_threads < max_threads_
          /\ 10 * active_threads >= 8 * current_threads
       THEN (IF least < 2 THEN least ELSE 2)
       ELSE 0

\* the new workers start at the top of worker_thread; nobody is notified
adjust_thread_count(pool, queue_size, active_threads) ==
    LET current_threads == Cardinality(workers_(pool))
        added == ThreadsToAdd(pool, queue_size, active_threads)
    IN [th \in DOMAIN pool |->
           IF th \in (current_threads + 1)..(current_threads + added)
           THEN "idle" ELSE pool[th]]

\* condition_.notify_one(): th is the thread woken, whichever of the blocked
\* ones; with nobody blocked the call wakes nobody (th is then any one thread
\* that is not blocked)
notify_one(th) ==
    IF condition_ = {} THEN th = WAITER ELSE th \in condition_

\* enqueue: the task is pushed, one blocked thread is notified, the thread
\* count is adjusted
enqueue(th) ==
    /\ total_tasks_queued_ < MaxTasks
    /\ notify_one(th)
    /\ tasks_' = tasks_ + 1
    /\ total_tasks_queued_' = total_tasks_queued_ + 1
    /\ condition_' = condition_ \ {th}
    /\ pool_thread' = adjust_thread_count(
                          IF th \in condition_
                          THEN [pool_thread EXCEPT ![th] = "idle"] ELSE pool_thread,
                          tasks_ + 1, active_tasks_)
    /\ UNCHANGED <<active_tasks_, notPoolVars>>

\* worker_thread, under the mutex: wait for !tasks_.empty() (stop_ is false),
\* then pop the task and active_tasks_++
worker_thread_take(w) ==
    /\ pool_thread[w] = "idle"
    /\ IF tasks_ = 0
       THEN /\ condition_' = condition_ \cup {w}
            /\ pool_thread' = [pool_thread EXCEPT ![w] = "waiting"]
            /\ UNCHANGED <<tasks_, active_tasks_>>
       ELSE /\ tasks_' = tasks_ - 1
            /\ active_tasks_' = active_tasks_ + 1
            /\ pool_thread' = [pool_thread EXCEPT ![w] = "running"]
            /\ UNCHANGED condition_
    /\ UNCHANGED <<total_tasks_queued_, notPoolVars>>

\* worker_thread, outside the mutex: the task runs and ends, active_tasks_--,
\* adjust_thread_count; condition_ is not notified
worker_thread_finish(w) ==
    /\ pool_thread[w] = "running"
    /\ active_tasks_' = active_tasks_ - 1
    /\ pool_thread' = adjust_thread_count([pool_thread EXCEPT ![w] = "idle"],
                                          tasks_, active_tasks_ - 1)
    /\ UNCHANGED <<tasks_, condition_, total_tasks_queued_, notPoolVars>>

\* wait_for_all_tasks: wait for tasks_.empty() && active_tasks_ == 0
wait_for_all_tasks ==
    /\ pool_thread[WAITER] = "idle"
    /\ IF tasks_ = 0 /\ active_tasks_ = 0
       THEN /\ pool_thread' = [pool_thread EXCEPT ![WAITER] = "returned"]
            /\ UNCHANGED condition_
       ELSE /\ pool_thread' = [pool_thread EXCEPT ![WAITER] = "waiting"]
            /\ condition_' = condition_ \cup {WAITER}
    /\ UNCHANGED <<tasks_, active_tasks_, total_tasks_queued_, notPoolVars>>

\* std::condition_variable::wait may wake without a notification; nothing
\* promises that it ever does
spurious_wakeup(th) ==
    /\ th \in condition_
    /\ condition_' = condition_ \ {th}
    /\ pool_thread' = [pool_thread EXCEPT ![th] = "idle"]
    /\ UNCHANGED <<tasks_, active_tasks_, total_tasks_queued_, notPoolVars>>

NextPool ==
    \/ \E th \in Workers \cup {WAITER} : enqueue(th)
    \/ \E w \in Workers : worker_thread_take(w)
    \/ \E w \in Workers : worker_thread_finish(w)
    \/ wait_for_all_tasks
    \/ \E th \in Workers \cup {WAITER} : spurious_wakeup(th)

\* fair scheduling: a thread that can run does run; tasks end
SpecPool ==
    /\ Init
    /\ [][NextPool]_vars
    /\ \A w \in Workers : WF_vars(worker_thread_take(w))
    /\ \A w \in Workers : WF_vars(worker_thread_finish(w))
    /\ WF_vars(wait_for_all_tasks)

\* C37: a thread blocked in wait_for_all_tasks() is released once the queue is
\* empty and no task is executing.
WaitForAllTasksReturns ==
    (pool_thread[WAITER] = "waiting" /\ tasks_ = 0 /\ active_tasks_ = 0)
        ~> (pool_thread[WAITER] = "returned")
====
